---- MODULE Spec2Model ----
(***************************************************************************)
(* AsyncQueue: bounded, closable producer-consumer queue with a circular   *)
(* item buffer and two LIFO waiter stacks.                                 *)
(*                                                                         *)
(* The queue runs on one JavaScript thread.  A call of enqueue or dequeue  *)
(* runs synchronously up to its first await; a continuation whose promise  *)
(* was resolved is appended to the microtask queue (jobs) and the          *)
(* microtasks run in FIFO order.  New calls may be issued between any two  *)
(* microtasks.                                                             *)
(***************************************************************************)
EXTENDS Integers, Sequences, FiniteSets, TLC

\* ---- bounds of the model -------------------------------------------------
MaxCalls == 6          \* enqueue + dequeue calls issued in one run
MaxCap == 3            \* requested capacities 1..MaxCap
MaxItemsSP == 4        \* items of the single producer
MaxCloses == 2         \* calls of close()
MaxWaiters == 3        \* dequeue calls waiting before the enqueues start
MaxBal == 3            \* enqueue calls, and dequeue calls, of a balanced run
NumProducers == 2      \* producers that enqueue one item after another
NumConsumers == 2      \* consumers that dequeue until end-of-stream
MaxItemsMC == 3        \* enqueue calls of the producers together
CapMC == 1             \* capacity of the queue the producers and consumers share
MaxCallsAny == 4       \* enqueue + dequeue calls when undefined may be enqueued
MaxLoops == 2          \* calls of drain(), take(n) and async iterations
MaxTake == 2           \* the argument of take is in 0..MaxTake
MaxItemsLoop == 2      \* items of the producer that feeds the loops
MaxCallsEq == 5        \* enqueue + dequeue calls on the two queues side by side
MaxSharpCalls == 5     \* enqueue + dequeueAsync calls on the C#-style queue
NumSignals == 2        \* abort signals passed to dequeueAsyncWithCancel
MaxStackCalls == 18    \* calls of the kind that fills a waiter array
MaxFewCalls == 2       \* calls of the other kind in such a run
CapLoop == 1           \* capacity of the queue the loops read

\* ---- values ---------------------------------------------------------------
Items == {"a", "b"}
Undefined == "undefined"
NoResolver == 0        \* an empty entry of a waiter array

INITIAL_WAITING_CAPACITY == 16

VARIABLES
  maxSize, buffer, head, tail, count,
  waitingConsumers, waitingConsumersCount,
  waitingProducers, waitingProducersCount,
  closed,
  calls,       \* the enqueue/dequeue calls issued so far, by call number
  jobs,        \* microtask queue: calls whose resolver was invoked
  accepted,    \* history: enqueue calls in the order they wrote the buffer
  delivered,   \* history: dequeue calls in the order they read the buffer
  closeSeen,   \* history: the calls pending when close() was first called
  closeCalls,  \* history: the number of calls of close()
  ctor,        \* the constructor call: its arguments and the error it threw
  loops,       \* the calls of drain(), take(n) and the async iterations
  sides,       \* the array-based and the circular-buffer queue, side by side
  sharp        \* the C#-style queue, its completion sources and abort signals

qvars == <<maxSize, buffer, head, tail, count, waitingConsumers,
           waitingConsumersCount, waitingProducers, waitingProducersCount,
           closed>>
vars == <<maxSize, buffer, head, tail, count, waitingConsumers,
          waitingConsumersCount, waitingProducers, waitingProducersCount,
          closed, calls, jobs, accepted, delivered, closeSeen, closeCalls,
          ctor, loops, sides, sharp>>

\* ---- 32-bit arithmetic used by the constructor and the index mask --------
RECURSIVE Clz32(_)
Clz32(x) == IF x = 0 THEN 32 ELSE Clz32(x \div 2) - 1

\* 1 << n on 32-bit integers: the shift count is taken modulo 32 and bit 31
\* is the sign bit
Shl32One(n) ==
  LET k == n % 32 IN IF k = 31 THEN (-2147483647) - 1 ELSE 2 ^ k

RECURSIVE BitAnd(_, _)
BitAnd(a, b) ==
  IF a = 0 \/ b = 0 THEN 0
  ELSE (a % 2) * (b % 2) + 2 * BitAnd(a \div 2, b \div 2)

bufferSize(n) == Shl32One(32 - Clz32(n - 1))

bufferLength == bufferSize(maxSize)

\* ---- waiter stacks --------------------------------------------------------
NewWaiters == [i \in 1 .. INITIAL_WAITING_CAPACITY |-> NoResolver]

pushWaiter_growByOne(queue, cnt, resolver) ==
  LET grown == IF cnt >= Len(queue)
               THEN Append(queue, NoResolver)
               ELSE queue
  IN [grown EXCEPT ![cnt + 1] = resolver]

\* pushWaiter: the array after the push (its count becomes cnt + 1)
pushWaiter(queue, cnt, resolver) ==
  LET grown == IF cnt >= Len(queue)
               THEN queue \o [i \in 1 .. Len(queue) |-> NoResolver]
               ELSE queue
  IN [grown EXCEPT ![cnt + 1] = resolver]

\* popWaiter: the resolver returned, and the array after the pop
popWaiterResolver_offByOne(queue, cnt) ==
  IF cnt = 0 THEN NoResolver ELSE queue[cnt + 1]

popWaiterResolver_oldest(queue, cnt) ==
  IF cnt = 0 THEN NoResolver ELSE queue[1]

popWaiterResolver(queue, cnt) ==
  IF cnt = 0 THEN NoResolver ELSE queue[cnt]

popWaiterQueue_noClear(queue, cnt) == queue

popWaiterQueue(queue, cnt) ==
  IF cnt = 0 THEN queue ELSE [queue EXCEPT ![cnt] = NoResolver]

\* resolve(): the continuation of call r joins the microtask queue
Resolve(js, r) == IF r = NoResolver THEN js ELSE Append(js, r)

Woken(cs, r) == IF r = NoResolver THEN cs ELSE [cs EXCEPT ![r].st = "woken"]

\* ---- construction ---------------------------------------------------------
NoError == "none"

\* new Array(n) throws a RangeError unless n is an array length
ArrayNew(n) ==
  IF n < 0
  THEN [threw |-> TRUE, message |-> "Invalid array length"]
  ELSE [threw |-> FALSE, array |-> [i \in 0 .. n - 1 |-> Undefined]]

\* lines 44-57; args is the argument list of the call, <<>> or <<n>>
constructor(args) ==
  LET n == IF Len(args) = 0 THEN 1 ELSE args[1] IN
  IF n < 1
  THEN [threw |-> TRUE, message |-> "maxSize must be at least 1"]
  ELSE LET b == ArrayNew(bufferSize(n)) IN
       IF b.threw THEN b
       ELSE [threw |-> FALSE, maxSize |-> n, buffer |-> b.array,
             waitingConsumers |-> NewWaiters, waitingProducers |-> NewWaiters]

\* the state after new AsyncQueue(...args); when the constructor threw there
\* is no queue, the fields keep their initializers and no method can be called
InitQueue(args) ==
  LET q == constructor(args) IN
  /\ ctor = [args |-> args, error |-> IF q.threw THEN q.message ELSE NoError]
  /\ maxSize = IF q.threw THEN 0 ELSE q.maxSize
  /\ buffer = IF q.threw THEN <<>> ELSE q.buffer
  /\ head = 0
  /\ tail = 0
  /\ count = 0
  /\ waitingConsumers = IF q.threw THEN <<>> ELSE q.waitingConsumers
  /\ waitingConsumersCount = 0
  /\ waitingProducers = IF q.threw THEN <<>> ELSE q.waitingProducers
  /\ waitingProducersCount = 0
  /\ closed = FALSE
  /\ calls = <<>>
  /\ jobs = <<>>
  /\ accepted = <<>>
  /\ delivered = <<>>
  /\ closeSeen = {}
  /\ closeCalls = 0
  /\ loops = <<>>

\* no queue of another implementation has been constructed
NoSides == <<>>
NoSharp == <<>>

InitWith(args) ==
  /\ InitQueue(args)
  /\ sides = NoSides
  /\ sharp = NoSharp

Init == \E n \in 1 .. MaxCap : InitWith(<<n>>)

\* ---- circular buffer ------------------------------------------------------
addToBuffer_wrongMask(item) ==
  /\ buffer' = [buffer EXCEPT ![tail] = item]
  /\ tail' = BitAnd(tail + 1, bufferLength)
  /\ count' = count + 1

addToBuffer(item) ==
  /\ buffer' = [buffer EXCEPT ![tail] = item]
  /\ tail' = BitAnd(tail + 1, bufferLength - 1)
  /\ count' = count + 1

\* the value removeFromBuffer returns
removedItem == IF count = 0 THEN Undefined ELSE buffer[head]

removeFromBuffer_headStays ==
  IF count = 0
  THEN UNCHANGED <<buffer, head, count>>
  ELSE /\ buffer' = [buffer EXCEPT ![head] = Undefined]
       /\ head' = head
       /\ count' = count - 1

removeFromBuffer_noDecrement ==
  IF count = 0
  THEN UNCHANGED <<buffer, head, count>>
  ELSE /\ buffer' = [buffer EXCEPT ![head] = Undefined]
       /\ head' = BitAnd(head + 1, bufferLength - 1)
       /\ count' = count

removeFromBuffer_noClear ==
  IF count = 0
  THEN UNCHANGED <<buffer, head, count>>
  ELSE /\ buffer' = buffer
       /\ head' = BitAnd(head + 1, bufferLength - 1)
       /\ count' = count - 1

removeFromBuffer ==
  IF count = 0
  THEN UNCHANGED <<buffer, head, count>>
  ELSE /\ buffer' = [buffer EXCEPT ![head] = Undefined]
       /\ head' = BitAnd(head + 1, bufferLength - 1)
       /\ count' = count - 1

\* ---- a call record --------------------------------------------------------
\* op: "enq" | "deq"; st: "suspended" | "woken" | "done";
\* res: "pending" | "ok" | "closed_error" | the value a dequeue returned.
\* History of the call: atLimit: it was issued on an open queue that was full
\* (enqueue) or empty (dequeue); closedAtCall: it was issued after close();
\* waited: it has suspended at least once;
\* mark0/mark1: for an enqueue the number of removals, for a dequeue the
\* number of insertions, when the call was issued / when it completed;
\* reg: the rank of the call's latest registration as a waiter among all
\* registrations of the run, 0 when it never registered.
NewCall(op, item) ==
  [op |-> op, item |-> item, st |-> "suspended", res |-> "pending",
   atLimit |-> ~closed /\ (IF op = "enq" THEN count >= maxSize ELSE count = 0),
   closedAtCall |-> closed,
   waited |-> FALSE,
   mark0 |-> IF op = "enq" THEN Len(delivered) ELSE Len(accepted),
   mark1 |-> 0,
   reg |-> 0]

\* the rank of the next registration
NextReg(cs) ==
  LET regs == {0} \cup {cs[d].reg : d \in DOMAIN cs}
  IN 1 + CHOOSE m \in regs : \A r \in regs : r <= m

Suspend(cs, c) ==
  [cs EXCEPT ![c].st = "suspended", ![c].waited = TRUE, ![c].reg = NextReg(cs)]

Complete(cs, c, res, mark) ==
  [cs EXCEPT ![c].st = "done", ![c].res = res, ![c].mark1 = mark]

\* ---- enqueue --------------------------------------------------------------
\* line 117, the loop test
mustWaitProducer_gt == count > maxSize /\ ~closed

mustWaitProducer_bufferLength == count >= bufferLength /\ ~closed

mustWaitProducer_early == count + 1 >= maxSize /\ ~closed

mustWaitProducer == count >= maxSize /\ ~closed

\* lines 120-122: the call registers its resolver and suspends.  cs and js
\* are the calls and the microtask queue as the caller of this step left them.
EnqueueWait_noCount(c, cs, js) ==
  /\ waitingProducers' = pushWaiter(waitingProducers, waitingProducersCount, c)
  /\ waitingProducersCount' = waitingProducersCount
  /\ calls' = Suspend(cs, c)
  /\ jobs' = js
  /\ UNCHANGED <<maxSize, buffer, head, tail, count, waitingConsumers,
                 waitingConsumersCount, closed, accepted, delivered,
                 closeSeen, closeCalls, ctor>>

EnqueueWait(c, cs, js) ==
  /\ waitingProducers' = pushWaiter(waitingProducers, waitingProducersCount, c)
  /\ waitingProducersCount' = waitingProducersCount + 1
  /\ calls' = Suspend(cs, c)
  /\ jobs' = js
  /\ UNCHANGED <<maxSize, buffer, head, tail, count, waitingConsumers,
                 waitingConsumersCount, closed, accepted, delivered,
                 closeSeen, closeCalls, ctor>>

\* lines 130-139: the insertion and the wake of one consumer
EnqueueInsert_noWake(c, cs, js) ==
  /\ addToBuffer(cs[c].item)
  /\ accepted' = Append(accepted, c)
  /\ jobs' = js
  /\ calls' = Complete(cs, c, "ok", Len(delivered))
  /\ UNCHANGED <<maxSize, head, waitingConsumers, waitingConsumersCount,
                 waitingProducers, waitingProducersCount, closed, delivered,
                 closeSeen, closeCalls, ctor>>

EnqueueInsert(c, cs, js) ==
  /\ addToBuffer(cs[c].item)
  /\ accepted' = Append(accepted, c)
  /\ IF waitingConsumersCount > 0
     THEN LET consumer == popWaiterResolver(waitingConsumers, waitingConsumersCount)
          IN /\ waitingConsumers' = popWaiterQueue(waitingConsumers, waitingConsumersCount)
             /\ waitingConsumersCount' = waitingConsumersCount - 1
             /\ jobs' = Resolve(js, consumer)
             /\ calls' = Woken(Complete(cs, c, "ok", Len(delivered)), consumer)
     ELSE /\ jobs' = js
          /\ calls' = Complete(cs, c, "ok", Len(delivered))
          /\ UNCHANGED <<waitingConsumers, waitingConsumersCount>>
  /\ UNCHANGED <<maxSize, head, waitingProducers, waitingProducersCount,
                 closed, delivered, closeSeen, closeCalls, ctor>>

\* lines 117-139
EnqueueFrom(c, cs, js) ==
  IF mustWaitProducer THEN EnqueueWait(c, cs, js) ELSE EnqueueInsert(c, cs, js)

\* lines 112 and 126: throw new Error('Queue is closed')
EnqueueThrow_afterInsert(c, cs, js) ==
  /\ calls' = Complete(cs, c, "closed_error", Len(delivered))
  /\ jobs' = js
  /\ addToBuffer(cs[c].item)
  /\ accepted' = Append(accepted, c)
  /\ UNCHANGED <<maxSize, head, waitingConsumers, waitingConsumersCount,
                 waitingProducers, waitingProducersCount, closed, delivered,
                 closeSeen, closeCalls, ctor>>

EnqueueThrow(c, cs, js) ==
  /\ calls' = Complete(cs, c, "closed_error", Len(delivered))
  /\ jobs' = js
  /\ UNCHANGED <<qvars, accepted, delivered, closeSeen, closeCalls, ctor>>

\* enqueue(item) is called: lines 109-140 up to the first await
EnqueueCall_noClosedCheck(item) ==
  /\ EnqueueFrom(Len(calls) + 1, Append(calls, NewCall("enq", item)), jobs)
  /\ UNCHANGED <<loops, sides, sharp>>

EnqueueCall(item) ==
  /\ LET c == Len(calls) + 1
         cs == Append(calls, NewCall("enq", item))
     IN IF closed
        THEN EnqueueThrow(c, cs, jobs)
        ELSE EnqueueFrom(c, cs, jobs)
  /\ UNCHANGED <<loops, sides, sharp>>

\* the continuation of a suspended enqueue runs: lines 124-139
EnqueueResume_if ==
  /\ jobs # <<>>
  /\ calls[Head(jobs)].op = "enq"
  /\ IF closed
     THEN EnqueueThrow(Head(jobs), calls, Tail(jobs))
     ELSE EnqueueInsert(Head(jobs), calls, Tail(jobs))
  /\ UNCHANGED <<loops, sides, sharp>>

EnqueueResume_noClosedCheck ==
  /\ jobs # <<>>
  /\ calls[Head(jobs)].op = "enq"
  /\ EnqueueFrom(Head(jobs), calls, Tail(jobs))
  /\ UNCHANGED <<loops, sides, sharp>>

EnqueueResume ==
  /\ jobs # <<>>
  /\ calls[Head(jobs)].op = "enq"
  /\ IF closed
     THEN EnqueueThrow(Head(jobs), calls, Tail(jobs))
     ELSE EnqueueFrom(Head(jobs), calls, Tail(jobs))
  /\ UNCHANGED <<loops, sides, sharp>>

\* ---- dequeue --------------------------------------------------------------
\* line 149, the loop test
mustWaitConsumer_never == count < 0 /\ ~closed

mustWaitConsumer_ignoreClosed == count = 0

mustWaitConsumer == count = 0 /\ ~closed

\* lines 152-154: the call registers its resolver and suspends
DequeueWait(c, cs, js) ==
  /\ waitingConsumers' = pushWaiter(waitingConsumers, waitingConsumersCount, c)
  /\ waitingConsumersCount' = waitingConsumersCount + 1
  /\ calls' = Suspend(cs, c)
  /\ jobs' = js
  /\ UNCHANGED <<maxSize, buffer, head, tail, count, waitingProducers,
                 waitingProducersCount, closed, accepted, delivered,
                 closeSeen, closeCalls, ctor>>

\* lines 159-161: end of stream
DequeueEnd(c, cs, js) ==
  /\ calls' = Complete(cs, c, Undefined, Len(accepted))
  /\ jobs' = js
  /\ UNCHANGED <<qvars, accepted, delivered, closeSeen, closeCalls, ctor>>

\* lines 163-174: the removal and the wake of one producer
DequeueRemove_noWake(c, cs, js) ==
  /\ removeFromBuffer
  /\ delivered' = IF count = 0 THEN delivered ELSE Append(delivered, c)
  /\ jobs' = js
  /\ calls' = Complete(cs, c, removedItem, Len(accepted))
  /\ UNCHANGED <<maxSize, tail, waitingConsumers, waitingConsumersCount,
                 waitingProducers, waitingProducersCount, closed, accepted,
                 closeSeen, closeCalls, ctor>>

DequeueRemove(c, cs, js) ==
  /\ removeFromBuffer
  /\ delivered' = IF count = 0 THEN delivered ELSE Append(delivered, c)
  /\ IF waitingProducersCount > 0
     THEN LET producer == popWaiterResolver(waitingProducers, waitingProducersCount)
          IN /\ waitingProducers' = popWaiterQueue(waitingProducers, waitingProducersCount)
             /\ waitingProducersCount' = waitingProducersCount - 1
             /\ jobs' = Resolve(js, producer)
             /\ calls' = Woken(Complete(cs, c, removedItem, Len(accepted)), producer)
     ELSE /\ jobs' = js
          /\ calls' = Complete(cs, c, removedItem, Len(accepted))
          /\ UNCHANGED <<waitingProducers, waitingProducersCount>>
  /\ UNCHANGED <<maxSize, tail, waitingConsumers, waitingConsumersCount,
                 closed, accepted, closeSeen, closeCalls, ctor>>

\* lines 149-174
DequeueFrom_endWhenClosed(c, cs, js) ==
  IF mustWaitConsumer THEN DequeueWait(c, cs, js)
  ELSE IF closed THEN DequeueEnd(c, cs, js)
  ELSE DequeueRemove(c, cs, js)

DequeueFrom(c, cs, js) ==
  IF mustWaitConsumer THEN DequeueWait(c, cs, js)
  ELSE IF count = 0 /\ closed THEN DequeueEnd(c, cs, js)
  ELSE DequeueRemove(c, cs, js)

\* dequeue() is called: lines 146-175 up to the first await
DequeueCall ==
  /\ DequeueFrom(Len(calls) + 1, Append(calls, NewCall("deq", Undefined)), jobs)
  /\ UNCHANGED <<loops, sides, sharp>>

\* the continuation of a suspended dequeue runs
DequeueResume ==
  /\ jobs # <<>>
  /\ calls[Head(jobs)].op = "deq"
  /\ DequeueFrom(Head(jobs), calls, Tail(jobs))
  /\ UNCHANGED <<loops, sides, sharp>>

\* ---- close ----------------------------------------------------------------
Pending(op) == {c \in DOMAIN calls : calls[c].op = op /\ calls[c].st # "done"}

RECURSIVE ResolveAll(_, _, _)
ResolveAll(js, queue, n) ==
  IF n = 0 THEN js
  ELSE Resolve(ResolveAll(js, queue, n - 1), queue[n])

RECURSIVE WokenAll(_, _, _)
WokenAll(cs, queue, n) ==
  IF n = 0 THEN cs
  ELSE Woken(WokenAll(cs, queue, n - 1), queue[n])

ClearAll(queue, n) ==
  [i \in 1 .. Len(queue) |-> IF i <= n THEN NoResolver ELSE queue[i]]

\* Lines 181-201
Close_noConsumerWake ==
  /\ closed' = TRUE
  /\ jobs' = ResolveAll(jobs, waitingProducers, waitingProducersCount)
  /\ calls' = WokenAll(calls, waitingProducers, waitingProducersCount)
  /\ waitingConsumers' = ClearAll(waitingConsumers, waitingConsumersCount)
  /\ waitingConsumersCount' = 0
  /\ waitingProducers' = ClearAll(waitingProducers, waitingProducersCount)
  /\ waitingProducersCount' = 0
  /\ closeSeen' = IF closed THEN closeSeen
                  ELSE {<<c, calls[c].st>> : c \in Pending("enq") \cup Pending("deq")}
  /\ closeCalls' = closeCalls + 1
  /\ UNCHANGED <<maxSize, buffer, head, tail, count, accepted, delivered, ctor,
                 loops, sides, sharp>>

Close_sweepNoClear ==
  /\ closed' = TRUE
  /\ jobs' = ResolveAll(ResolveAll(jobs, waitingConsumers, Len(waitingConsumers)),
                        waitingProducers, Len(waitingProducers))
  /\ calls' = WokenAll(WokenAll(calls, waitingConsumers, Len(waitingConsumers)),
                       waitingProducers, Len(waitingProducers))
  /\ waitingConsumers' = waitingConsumers
  /\ waitingConsumersCount' = 0
  /\ waitingProducers' = waitingProducers
  /\ waitingProducersCount' = 0
  /\ closeSeen' = IF closed THEN closeSeen
                  ELSE {<<c, calls[c].st>> : c \in Pending("enq") \cup Pending("deq")}
  /\ closeCalls' = closeCalls + 1
  /\ UNCHANGED <<maxSize, buffer, head, tail, count, accepted, delivered, ctor,
                 loops, sides, sharp>>

Close_keepCounts ==
  /\ closed' = TRUE
  /\ jobs' = ResolveAll(ResolveAll(jobs, waitingConsumers, waitingConsumersCount),
                        waitingProducers, waitingProducersCount)
  /\ calls' = WokenAll(WokenAll(calls, waitingConsumers, waitingConsumersCount),
                       waitingProducers, waitingProducersCount)
  /\ closeSeen' = IF closed THEN closeSeen
                  ELSE {<<c, calls[c].st>> : c \in Pending("enq") \cup Pending("deq")}
  /\ closeCalls' = closeCalls + 1
  /\ UNCHANGED <<maxSize, buffer, head, tail, count, accepted, delivered, ctor,
                 loops, sides, sharp, waitingConsumers, waitingConsumersCount,
                 waitingProducers, waitingProducersCount>>

Close_noProducerWake ==
  /\ closed' = TRUE
  /\ jobs' = ResolveAll(jobs, waitingConsumers, waitingConsumersCount)
  /\ calls' = WokenAll(calls, waitingConsumers, waitingConsumersCount)
  /\ waitingConsumers' = ClearAll(waitingConsumers, waitingConsumersCount)
  /\ waitingConsumersCount' = 0
  /\ closeSeen' = IF closed THEN closeSeen
                  ELSE {<<c, calls[c].st>> : c \in Pending("enq") \cup Pending("deq")}
  /\ closeCalls' = closeCalls + 1
  /\ UNCHANGED <<maxSize, buffer, head, tail, count, accepted, delivered, ctor,
                 loops, sides, sharp, waitingProducers, waitingProducersCount>>

Close_dropItems ==
  /\ closed' = TRUE
  /\ jobs' = ResolveAll(ResolveAll(jobs, waitingConsumers, waitingConsumersCount),
                        waitingProducers, waitingProducersCount)
  /\ calls' = WokenAll(WokenAll(calls, waitingConsumers, waitingConsumersCount),
                       waitingProducers, waitingProducersCount)
  /\ waitingConsumers' = ClearAll(waitingConsumers, waitingConsumersCount)
  /\ waitingConsumersCount' = 0
  /\ waitingProducers' = ClearAll(waitingProducers, waitingProducersCount)
  /\ waitingProducersCount' = 0
  /\ closeSeen' = IF closed THEN closeSeen
                  ELSE {<<c, calls[c].st>> : c \in Pending("enq") \cup Pending("deq")}
  /\ closeCalls' = closeCalls + 1
  /\ count' = 0
  /\ head' = tail
  /\ UNCHANGED <<maxSize, buffer, tail, accepted, delivered, ctor, loops,
                 sides, sharp>>

Close ==
  /\ closed' = TRUE
  /\ jobs' = ResolveAll(ResolveAll(jobs, waitingConsumers, waitingConsumersCount),
                        waitingProducers, waitingProducersCount)
  /\ calls' = WokenAll(WokenAll(calls, waitingConsumers, waitingConsumersCount),
                       waitingProducers, waitingProducersCount)
  /\ waitingConsumers' = ClearAll(waitingConsumers, waitingConsumersCount)
  /\ waitingConsumersCount' = 0
  /\ waitingProducers' = ClearAll(waitingProducers, waitingProducersCount)
  /\ waitingProducersCount' = 0
  /\ closeSeen' = IF closed THEN closeSeen
                  ELSE {<<c, calls[c].st>> : c \in Pending("enq") \cup Pending("deq")}
  /\ closeCalls' = closeCalls + 1
  /\ UNCHANGED <<maxSize, buffer, head, tail, count, accepted, delivered, ctor,
                 loops, sides, sharp>>

\* ---- accessors ------------------------------------------------------------
isClosed_flagOnly == closed

isClosed == closed /\ count = 0
size == count
capacity == maxSize
isFull == count >= maxSize
isEmpty == count = 0
waitingConsumerCount == waitingConsumersCount
waitingProducerCount == waitingProducersCount

\* ---- any number of producers and consumers --------------------------------
Enqueue == Len(calls) < MaxCalls /\ \E item \in Items : EnqueueCall(item)

Dequeue == Len(calls) < MaxCalls /\ DequeueCall

CloseCall == closeCalls < MaxCloses /\ Close

Next ==
  \/ Enqueue
  \/ Dequeue
  \/ EnqueueResume
  \/ DequeueResume
  \/ CloseCall

Spec == Init /\ [][Next]_vars

\* ---- construction with any argument list ----------------------------------
\* new AsyncQueue(), new AsyncQueue(n) for small n, negative and zero
\* included, and for the first n above 2^30; the methods are called only on
\* a queue that was constructed.
CtorArgs ==
  {<<>>} \cup {<<n>> : n \in -1 .. MaxCap} \cup {<<2 ^ 30 + 1>>}

InitNew == \E args \in CtorArgs : InitWith(args)

Constructed == ctor.error = NoError

NextNew ==
  \/ Constructed /\ Enqueue
  \/ Constructed /\ Dequeue
  \/ Constructed /\ EnqueueResume
  \/ Constructed /\ DequeueResume
  \/ Constructed /\ CloseCall

SpecNew == InitNew /\ [][NextNew]_vars

\* ---- items of any value ---------------------------------------------------
\* enqueue(item: T) tests nothing about item: with T = string | undefined the
\* value undefined is an item like any other.
ItemsAny == Items \cup {Undefined}

EnqueueAny ==
  Len(calls) < MaxCallsAny /\ \E item \in ItemsAny : EnqueueCall(item)

DequeueAny == Len(calls) < MaxCallsAny /\ DequeueCall

CloseOnce == ~closed /\ Close

NextAny ==
  \/ EnqueueAny
  \/ DequeueAny
  \/ EnqueueResume
  \/ DequeueResume
  \/ CloseOnce

SpecAny == Init /\ [][NextAny]_vars

\* ---- drain(), take(n) and async iteration ---------------------------------
\* A loop record: kind: "drain" | "take" | "iter"; n: the argument of take;
\* mine: the dequeue calls the loop has issued, the last one being awaited;
\* items: the items pushed (drain, take) or yielded (iteration) so far;
\* st: "running" | "done".  History: atEnd: the queue was closed and empty
\* when the loop was called.
NewLoop(kind, n, mine, st) ==
  [kind |-> kind, n |-> n, mine |-> mine, items |-> <<>>, st |-> st,
   atEnd |-> isClosed]

\* the loop test of take, line 387, with i the number of iterations so far
takeMore(i, n) == i < n /\ ~isClosed

\* the loop calls this.dequeue() and awaits it: lines 286 and 388
LoopAwaitDequeue(ls) ==
  /\ DequeueFrom(Len(calls) + 1, Append(calls, NewCall("deq", Undefined)), jobs)
  /\ loops' = ls
  /\ UNCHANGED <<sides, sharp>>

LoopReturn(ls) ==
  /\ loops' = ls
  /\ UNCHANGED <<qvars, calls, jobs, accepted, delivered, closeSeen,
                 closeCalls, ctor, sides, sharp>>

\* the call of drain() or take(n), or the first next() of an iteration, up
\* to its first await
LoopBegin(kind, n) ==
  LET c == Len(calls) + 1 IN
  IF kind = "take" /\ ~takeMore(0, n)
  THEN LoopReturn(Append(loops, NewLoop(kind, n, <<>>, "done")))
  ELSE LoopAwaitDequeue(Append(loops, NewLoop(kind, n, <<c>>, "running")))

\* lines 287-291, 365-366 and 389-393: the awaited dequeue has returned
LoopStep(h) ==
  LET l == loops[h]
      c == l.mine[Len(l.mine)]
      its == Append(l.items, calls[c].res)
  IN /\ l.st = "running"
     /\ calls[c].st = "done"
     /\ IF calls[c].res = Undefined
        THEN LoopReturn([loops EXCEPT ![h].st = "done"])
        ELSE IF l.kind = "take" /\ ~takeMore(Len(l.mine), l.n)
        THEN LoopReturn([loops EXCEPT ![h].st = "done", ![h].items = its])
        ELSE LoopAwaitDequeue([loops EXCEPT
                             ![h].items = its,
                             ![h].mine = Append(l.mine, Len(calls) + 1)])

\* lines 363-369
drain == Len(loops) < MaxLoops /\ LoopBegin("drain", 0)

\* lines 385-396
take == Len(loops) < MaxLoops /\ \E n \in 0 .. MaxTake : LoopBegin("take", n)

\* lines 284-293
asyncIterator == Len(loops) < MaxLoops /\ LoopBegin("iter", 0)

LoopResume == \E h \in DOMAIN loops : LoopStep(h)

\* the producer enqueues one value after the other: "a", "b", "a", ... with
\* undefined in the place of any of them
EnqueueCalls == {c \in DOMAIN calls : calls[c].op = "enq"}

NextValue == IF Cardinality(EnqueueCalls) % 2 = 0 THEN "a" ELSE "b"

ProducerAny ==
  /\ Pending("enq") = {}
  /\ ~closed
  /\ Cardinality(EnqueueCalls) < MaxItemsLoop
  /\ \E item \in {NextValue, Undefined} : EnqueueCall(item)

InitLoop == InitWith(<<CapLoop>>)

NextDrain ==
  \/ ProducerAny
  \/ CloseOnce
  \/ drain
  \/ LoopResume
  \/ EnqueueResume
  \/ DequeueResume

SpecDrain == InitLoop /\ [][NextDrain]_vars

NextTake ==
  \/ ProducerAny
  \/ CloseOnce
  \/ take
  \/ LoopResume
  \/ EnqueueResume
  \/ DequeueResume

SpecTake == InitLoop /\ [][NextTake]_vars

NextIter ==
  \/ ProducerAny
  \/ CloseOnce
  \/ asyncIterator
  \/ LoopResume
  \/ EnqueueResume
  \/ DequeueResume

SpecIter == InitLoop /\ [][NextIter]_vars

\* ---- one producer, one consumer -------------------------------------------
\* The producer issues each enqueue after the previous one completed and then
\* closes; the consumer issues each dequeue after the previous one completed,
\* until it is given the end-of-stream marker.
Calls(op) == {c \in DOMAIN calls : calls[c].op = op}

EndOfStream ==
  \E c \in Calls("deq") : calls[c].st = "done" /\ calls[c].res = Undefined

ProducerEnqueue ==
  /\ Pending("enq") = {}
  /\ ~closed
  /\ Cardinality(Calls("enq")) < MaxItemsSP
  /\ \E item \in Items : EnqueueCall(item)

ProducerClose ==
  /\ Pending("enq") = {}
  /\ ~closed
  /\ Close

ConsumerDequeue ==
  /\ Pending("deq") = {}
  /\ ~EndOfStream
  /\ DequeueCall

NextSP ==
  \/ ProducerEnqueue
  \/ ProducerClose
  \/ ConsumerDequeue
  \/ EnqueueResume
  \/ DequeueResume

SpecSP == Init /\ [][NextSP]_vars

\* ---- the event loop ------------------------------------------------------
\* a continuation in the microtask queue is eventually run
Resumed == WF_vars(EnqueueResume) /\ WF_vars(DequeueResume)

NumCalls(op) == Cardinality(Calls(op))

AllDone == \A c \in DOMAIN calls : calls[c].st = "done"

\* ---- N waiting consumers, then N enqueues ---------------------------------
WaitingDequeue ==
  /\ Calls("enq") = {}
  /\ NumCalls("deq") < MaxWaiters
  /\ DequeueCall

LaterEnqueue ==
  /\ NumCalls("enq") < NumCalls("deq")
  /\ \E item \in Items : EnqueueCall(item)

NextNW ==
  \/ WaitingDequeue
  \/ LaterEnqueue
  \/ EnqueueResume
  \/ DequeueResume

SpecNW == Init /\ [][NextNW]_vars /\ Resumed

\* ---- balanced load, no close ----------------------------------------------
BalancedEnqueue ==
  /\ NumCalls("enq") < MaxBal
  /\ \E item \in Items : EnqueueCall(item)

BalancedDequeue ==
  /\ NumCalls("deq") < MaxBal
  /\ DequeueCall

NextBal ==
  \/ BalancedEnqueue
  \/ BalancedDequeue
  \/ EnqueueResume
  \/ DequeueResume

SpecBal == Init /\ [][NextBal]_vars /\ Resumed

\* ---- producers, and consumers that loop until end-of-stream ---------------
\* Each producer issues an enqueue when its previous one has completed; each
\* consumer issues a dequeue when its previous one has completed, until one
\* of its calls returns the end-of-stream marker; close() is called once.
\* The items enqueued alternate, so that a repeated or a skipped item shows
\* in the order of the removals.
NextItem == IF NumCalls("enq") % 2 = 0 THEN "a" ELSE "b"

EndedConsumers ==
  Cardinality({c \in Calls("deq") :
                 calls[c].st = "done" /\ calls[c].res = Undefined})

LoopEnqueue ==
  /\ Cardinality(Pending("enq")) < NumProducers
  /\ NumCalls("enq") < MaxItemsMC
  /\ EnqueueCall(NextItem)

LoopDequeue ==
  /\ Cardinality(Pending("deq")) + EndedConsumers < NumConsumers
  /\ DequeueCall

LoopClose == ~closed /\ Close

NextMC ==
  \/ LoopEnqueue
  \/ LoopDequeue
  \/ LoopClose
  \/ EnqueueResume
  \/ DequeueResume

InitMC == InitWith(<<CapMC>>)

SpecMC == InitMC /\ [][NextMC]_vars /\ Resumed /\ WF_vars(LoopDequeue)

\* ---- many waiters -----------------------------------------------------------
\* Calls of one kind are issued, enough of them to make their waiter array
\* grow, and then a few calls of the other kind; close() is called once.
MayCall(op, other) ==
  \/ Calls(other) = {} /\ NumCalls(op) < MaxStackCalls
  \/ Calls(other) # {} /\ calls[1].op = other /\ NumCalls(op) < MaxFewCalls

StackDequeue == MayCall("deq", "enq") /\ DequeueCall

StackEnqueue == MayCall("enq", "deq") /\ EnqueueCall("a")

NextStack ==
  \/ StackDequeue
  \/ StackEnqueue
  \/ EnqueueResume
  \/ DequeueResume
  \/ CloseOnce

InitStack == InitWith(<<1>>)

SpecStack == InitStack /\ [][NextStack]_vars

\* ---- histories ------------------------------------------------------------
Range(f) == {f[i] : i \in DOMAIN f}

IsPrefix(s, t) == Len(s) <= Len(t) /\ \A i \in 1 .. Len(s) : s[i] = t[i]

\* the items in the order they were written into the buffer
AcceptedItems == [i \in 1 .. Len(accepted) |-> calls[accepted[i]].item]

\* the values in the order dequeue calls took them from the buffer
DeliveredItems == [i \in 1 .. Len(delivered) |-> calls[delivered[i]].res]

\* the calls of one kind, in call order
RECURSIVE CallSeq(_, _)
CallSeq(op, n) ==
  IF n = 0 THEN <<>>
  ELSE IF calls[n].op = op THEN Append(CallSeq(op, n - 1), n)
  ELSE CallSeq(op, n - 1)

\* ---- the array-based queue and the circular queue, side by side ----------
\* A queue is a record of its fields, of the calls made on it and of its
\* continuations awaiting resumption; every operation is a function from the
\* queue before to the queue after.  The two classes share the text of their
\* waiting, waking and closing code (waiter arrays with push and shift).
SideCall(op, item) ==
  [op |-> op, item |-> item, st |-> "suspended", res |-> "pending",
   waited |-> FALSE]

Called(q, op, item) == [q EXCEPT !.calls = Append(@, SideCall(op, item))]

Finish(q, c, res) == [q EXCEPT !.calls[c].st = "done", !.calls[c].res = res]

\* await new Promise(resolve => this.waitingProducers.push(resolve))
WaitAsProducer(q, c) ==
  [q EXCEPT !.waitingProducers = Append(@, c),
            !.calls[c].st = "suspended", !.calls[c].waited = TRUE]

WaitAsConsumer(q, c) ==
  [q EXCEPT !.waitingConsumers = Append(@, c),
            !.calls[c].st = "suspended", !.calls[c].waited = TRUE]

\* const consumer = this.waitingConsumers.shift(); consumer?.()
WakeConsumer(q) ==
  IF Len(q.waitingConsumers) > 0
  THEN LET consumer == Head(q.waitingConsumers)
       IN [q EXCEPT !.waitingConsumers = Tail(@),
                    !.jobs = Append(@, consumer),
                    !.calls[consumer].st = "woken"]
  ELSE q

WakeProducer(q) ==
  IF Len(q.waitingProducers) > 0
  THEN LET producer == Head(q.waitingProducers)
       IN [q EXCEPT !.waitingProducers = Tail(@),
                    !.jobs = Append(@, producer),
                    !.calls[producer].st = "woken"]
  ELSE q

\* close(): forEach(resolve => resolve()) and length = 0, for both arrays
SideClose(q) ==
  LET swept == Range(q.waitingConsumers) \cup Range(q.waitingProducers)
  IN [q EXCEPT !.closed = TRUE,
               !.jobs = @ \o q.waitingConsumers \o q.waitingProducers,
               !.calls = [c \in DOMAIN @ |->
                            IF c \in swept THEN [@[c] EXCEPT !.st = "woken"]
                            ELSE @[c]],
               !.waitingConsumers = <<>>,
               !.waitingProducers = <<>>]

\* -- src/src/index.ts
OrigNew(n) ==
  [maxSize |-> n, queue |-> <<>>, waitingConsumers |-> <<>>,
   waitingProducers |-> <<>>, closed |-> FALSE, calls |-> <<>>, jobs |-> <<>>]

\* lines 52-71
OrigEnqueueFrom(q, c) ==
  IF Len(q.queue) >= q.maxSize /\ ~q.closed
  THEN WaitAsProducer(q, c)
  ELSE WakeConsumer(Finish([q EXCEPT !.queue = Append(@, q.calls[c].item)],
                           c, "ok"))

\* lines 44-72
OrigEnqueue(q, item) ==
  IF q.closed
  THEN Finish(Called(q, "enq", item), Len(q.calls) + 1, "closed_error")
  ELSE OrigEnqueueFrom(Called(q, "enq", item), Len(q.calls) + 1)

\* lines 82-103; Array.prototype.shift returns the first element
OrigDequeueFrom(q, c) ==
  IF Len(q.queue) = 0 /\ ~q.closed
  THEN WaitAsConsumer(q, c)
  ELSE IF Len(q.queue) = 0 /\ q.closed
  THEN Finish(q, c, Undefined)
  ELSE WakeProducer(Finish([q EXCEPT !.queue = Tail(@)], c, Head(q.queue)))

OrigDequeue(q) ==
  OrigDequeueFrom(Called(q, "deq", Undefined), Len(q.calls) + 1)

\* the continuation at the head of the microtask queue runs
OrigResume(q) ==
  IF q.jobs = <<>> THEN q
  ELSE LET c == Head(q.jobs)
           q0 == [q EXCEPT !.jobs = Tail(@)]
       IN IF q.calls[c].op = "deq" THEN OrigDequeueFrom(q0, c)
          ELSE IF q.closed THEN Finish(q0, c, "closed_error")
          ELSE OrigEnqueueFrom(q0, c)

OrigObserved(q) ==
  [size |-> Len(q.queue),
   capacity |-> q.maxSize,
   isClosed |-> q.closed /\ Len(q.queue) = 0,
   isFull |-> Len(q.queue) >= q.maxSize,
   isEmpty |-> Len(q.queue) = 0,
   waitingConsumerCount |-> Len(q.waitingConsumers),
   waitingProducerCount |-> Len(q.waitingProducers),
   calls |-> q.calls]

\* -- src/unnamed/part_007
CircNew(n) ==
  [maxSize |-> n, buffer |-> [i \in 0 .. bufferSize(n) - 1 |-> Undefined],
   head |-> 0, tail |-> 0, count |-> 0, waitingConsumers |-> <<>>,
   waitingProducers |-> <<>>, closed |-> FALSE, calls |-> <<>>, jobs |-> <<>>]

CircLength(q) == Cardinality(DOMAIN q.buffer)

\* lines 46-50
CircAdd_wrongMask(q, item) ==
  [q EXCEPT !.buffer[q.tail] = item,
            !.tail = BitAnd(q.tail + 1, CircLength(q)),
            !.count = @ + 1]

CircAdd(q, item) ==
  [q EXCEPT !.buffer[q.tail] = item,
            !.tail = BitAnd(q.tail + 1, CircLength(q) - 1),
            !.count = @ + 1]

\* lines 55-63: the value returned, and the queue after
CircRemoved(q) == IF q.count = 0 THEN Undefined ELSE q.buffer[q.head]

CircRemove(q) ==
  IF q.count = 0 THEN q
  ELSE [q EXCEPT !.buffer[q.head] = Undefined,
                 !.head = BitAnd(q.head + 1, CircLength(q) - 1),
                 !.count = @ - 1]

\* lines 79-98
CircEnqueueFrom(q, c) ==
  IF q.count >= q.maxSize /\ ~q.closed
  THEN WaitAsProducer(q, c)
  ELSE WakeConsumer(Finish(CircAdd(q, q.calls[c].item), c, "ok"))

\* lines 71-99
CircEnqueue(q, item) ==
  IF q.closed
  THEN Finish(Called(q, "enq", item), Len(q.calls) + 1, "closed_error")
  ELSE CircEnqueueFrom(Called(q, "enq", item), Len(q.calls) + 1)

\* lines 108-130
CircDequeueFrom(q, c) ==
  IF q.count = 0 /\ ~q.closed
  THEN WaitAsConsumer(q, c)
  ELSE IF q.count = 0 /\ q.closed
  THEN Finish(q, c, Undefined)
  ELSE WakeProducer(Finish(CircRemove(q), c, CircRemoved(q)))

CircDequeue(q) ==
  CircDequeueFrom(Called(q, "deq", Undefined), Len(q.calls) + 1)

CircResume(q) ==
  IF q.jobs = <<>> THEN q
  ELSE LET c == Head(q.jobs)
           q0 == [q EXCEPT !.jobs = Tail(@)]
       IN IF q.calls[c].op = "deq" THEN CircDequeueFrom(q0, c)
          ELSE IF q.closed THEN Finish(q0, c, "closed_error")
          ELSE CircEnqueueFrom(q0, c)

CircObserved(q) ==
  [size |-> q.count,
   capacity |-> q.maxSize,
   isClosed |-> q.closed /\ q.count = 0,
   isFull |-> q.count >= q.maxSize,
   isEmpty |-> q.count = 0,
   waitingConsumerCount |-> Len(q.waitingConsumers),
   waitingProducerCount |-> Len(q.waitingProducers),
   calls |-> q.calls]

\* the count slots of the buffer read from head
CircItems(q) ==
  [k \in 1 .. q.count |-> q.buffer[(q.head + k - 1) % CircLength(q)]]

\* -- the same calls on both queues, with the same schedule
mainvars == <<maxSize, buffer, head, tail, count, waitingConsumers,
              waitingConsumersCount, waitingProducers, waitingProducersCount,
              closed, calls, jobs, accepted, delivered, closeSeen, closeCalls,
              ctor, loops>>

BothEnqueue ==
  /\ Len(sides.orig.calls) < MaxCallsEq
  /\ \E item \in Items :
       sides' = [sides EXCEPT !.orig = OrigEnqueue(@, item),
                              !.circ = CircEnqueue(@, item)]
  /\ UNCHANGED <<mainvars, sharp>>

BothDequeue ==
  /\ Len(sides.orig.calls) < MaxCallsEq
  /\ sides' = [sides EXCEPT !.orig = OrigDequeue(@), !.circ = CircDequeue(@)]
  /\ UNCHANGED <<mainvars, sharp>>

\* one microtask runs: the oldest continuation of either queue
BothResume ==
  /\ sides.orig.jobs # <<>> \/ sides.circ.jobs # <<>>
  /\ sides' = [sides EXCEPT !.orig = OrigResume(@), !.circ = CircResume(@)]
  /\ UNCHANGED <<mainvars, sharp>>

BothClose ==
  /\ sides.closeCalls < MaxCloses
  /\ sides' = [sides EXCEPT !.orig = SideClose(@), !.circ = SideClose(@),
                            !.closeCalls = @ + 1]
  /\ UNCHANGED <<mainvars, sharp>>

InitBoth ==
  \E n \in 1 .. MaxCap :
    /\ InitQueue(<<n>>)
    /\ sides = [orig |-> OrigNew(n), circ |-> CircNew(n), closeCalls |-> 0]
    /\ sharp = NoSharp

NextBoth ==
  \/ BothEnqueue
  \/ BothDequeue
  \/ BothResume
  \/ BothClose

SpecBoth == InitBoth /\ [][NextBoth]_vars

\* ---- the C#-style queues ---------------------------------------------------
\* src/src/async-queue-csharp-style.ts and async-queue-csharp-optimized.ts.
\* A queue is a record: kind, "style" or "optimized"; items, the queue of
\* items (a SimpleQueue or an OptimizedQueue); promises, the waiting
\* completion sources, by number (a SimpleQueue or a PromiseStack); tcs, the
\* completion sources created so far, one for each call of
\* dequeueAsyncWithCancel; signals, the abort signals; jobs, the calls whose
\* promise has settled and whose await has not resumed yet; enqueued, the
\* number of calls of enqueue.  The k-th call of enqueue enqueues item k.
\* A completion source: completed, the field _completed; settled, the
\* arguments of the calls of _resolve and _reject, in order; signal, the signal
\* the call was given, 0 for none; queued, it was put into promises;
\* returned, what the call of dequeueAsyncWithCancel returned or threw.
NoSignal == 0

Result(value) == [kind |-> "result", value |-> value]
Canceled == [kind |-> "canceled", value |-> 0]
NotReturned == [kind |-> "pending", value |-> 0]

NewTcs(signal) ==
  [completed |-> FALSE, settled |-> <<>>, signal |-> signal,
   queued |-> FALSE, returned |-> NotReturned]

NewSignals ==
  [s \in 1 .. NumSignals |-> [aborted |-> FALSE, listeners |-> <<>>]]

\* -- src/src/async-queue-csharp-style.ts
SharpNew ==
  [kind |-> "style", items |-> <<>>, promises |-> <<>>, tcs |-> <<>>,
   signals |-> NewSignals, jobs |-> <<>>, enqueued |-> 0]

\* _resolve and _reject: the first call settles the promise, and the
\* function awaiting it resumes in a later microtask
Settle(q, t, outcome) ==
  [q EXCEPT !.tcs[t].settled = Append(@, outcome),
            !.jobs = IF q.tcs[t].settled = <<>> THEN Append(@, t) ELSE @]

\* lines 26-31: the value returned, and the queue after
trySetResultReturns(q, t) == ~q.tcs[t].completed

trySetResult(q, t, value) ==
  IF q.tcs[t].completed THEN q
  ELSE Settle([q EXCEPT !.tcs[t].completed = TRUE], t, Result(value))

\* lines 33-38
trySetCanceled_always(q, t) ==
  Settle([q EXCEPT !.tcs[t].completed = TRUE], t, Canceled)

trySetCanceled(q, t) ==
  IF q.tcs[t].completed THEN q
  ELSE Settle([q EXCEPT !.tcs[t].completed = TRUE], t, Canceled)

\* lines 93-126, up to the await
dequeueAsyncWithCancel(q, signal) ==
  LET t == Len(q.tcs) + 1
      q0 == [q EXCEPT !.tcs = Append(@, NewTcs(signal))]
  IN IF q.items # <<>>
     THEN trySetResult([q0 EXCEPT !.items = Tail(@)], t, Head(q.items))
     ELSE LET q1 ==
                IF signal = NoSignal THEN q0
                ELSE IF q.signals[signal].aborted THEN trySetCanceled(q0, t)
                ELSE [q0 EXCEPT !.signals[signal].listeners = Append(@, t)]
          IN [q1 EXCEPT !.promises = Append(@, t), !.tcs[t].queued = TRUE]

\* lines 131-150
enqueue_noRetry(q, item) ==
  IF q.promises = <<>>
  THEN [q EXCEPT !.items = Append(@, item)]
  ELSE trySetResult([q EXCEPT !.promises = Tail(@)], Head(q.promises), item)

RECURSIVE enqueue(_, _)
enqueue(q, item) ==
  IF q.promises = <<>>
  THEN [q EXCEPT !.items = Append(@, item)]
  ELSE LET promise == Head(q.promises)
           q0 == [q EXCEPT !.promises = Tail(@)]
       IN IF trySetResultReturns(q0, promise)
          THEN trySetResult(q0, promise, item)
          ELSE enqueue(q0, item)

\* the signal is aborted: its listeners run once, in the order they were added
RECURSIVE RunListeners(_, _)
RunListeners(q, listeners) ==
  IF listeners = <<>> THEN q
  ELSE RunListeners(trySetCanceled(q, Head(listeners)), Tail(listeners))

abort(q, signal) ==
  RunListeners([q EXCEPT !.signals[signal].aborted = TRUE,
                         !.signals[signal].listeners = <<>>],
               q.signals[signal].listeners)

\* lines 120-125: the await resumes with the outcome of the promise
SharpReturn(q) ==
  LET t == Head(q.jobs)
  IN [q EXCEPT !.jobs = Tail(@), !.tcs[t].returned = q.tcs[t].settled[1]]

\* -- src/src/async-queue-csharp-optimized.ts
\* OptimizedQueue, lines 45-123: a circular buffer that grows and shrinks
NewOptimizedQueue ==
  [buffer |-> [i \in 0 .. 15 |-> Undefined], head |-> 0, tail |-> 0,
   count |-> 0, capacity |-> 16]

Resized(b, newCapacity) ==
  [buffer |-> [i \in 0 .. newCapacity - 1 |->
                 IF i < b.count THEN b.buffer[(b.head + i) % b.capacity]
                 ELSE Undefined],
   head |-> 0, tail |-> b.count, count |-> b.count, capacity |-> newCapacity]

\* lines 81-94
grow(b) == Resized(b, b.capacity * 2)

\* lines 96-109
shrink(b) ==
  Resized(b, IF b.capacity \div 2 > 16 THEN b.capacity \div 2 ELSE 16)

\* lines 52-61
OptimizedQueueEnqueue(b, item) ==
  LET g == IF b.count >= b.capacity THEN grow(b) ELSE b
  IN [g EXCEPT !.buffer[g.tail] = item,
               !.tail = (g.tail + 1) % g.capacity,
               !.count = @ + 1]

\* lines 63-79: the queue after a successful tryDequeue; the item returned
\* is b.buffer[b.head]
OptimizedQueueTryDequeue(b) ==
  LET d == [b EXCEPT !.buffer[b.head] = Undefined,
                     !.head = (b.head + 1) % b.capacity,
                     !.count = @ - 1]
  IN IF d.capacity > 64 /\ 4 * d.count < d.capacity THEN shrink(d) ELSE d

OptimizedQueueItems(b) ==
  [k \in 1 .. b.count |-> b.buffer[(b.head + k - 1) % b.capacity]]

\* PromiseStack, lines 129-150; items[i] of the source is items[i + 1] here
NewPromiseStack == [items |-> <<>>, count |-> 0]

PromiseStackPush(st, t) ==
  [items |-> IF st.count < Len(st.items)
             THEN [st.items EXCEPT ![st.count + 1] = t]
             ELSE Append(st.items, t),
   count |-> st.count + 1]

\* the stack after a successful tryPop; the item returned is items[count]
PromiseStackTryPop(st) ==
  [items |-> [st.items EXCEPT ![st.count] = NoResolver],
   count |-> st.count - 1]

OptimizedNew ==
  [kind |-> "optimized", items |-> NewOptimizedQueue,
   promises |-> NewPromiseStack, tcs |-> <<>>,
   signals |-> NewSignals, jobs |-> <<>>, enqueued |-> 0]

\* lines 179-208; on the fast path no completion source is created, the
\* record of the call stands for the promise the async function returns
optimizedDequeueAsyncWithCancel(q, signal) ==
  LET t == Len(q.tcs) + 1
      q0 == [q EXCEPT !.tcs = Append(@, NewTcs(signal))]
  IN IF q.items.count # 0
     THEN trySetResult([q0 EXCEPT !.items = OptimizedQueueTryDequeue(@)],
                       t, q.items.buffer[q.items.head])
     ELSE LET q1 ==
                IF signal = NoSignal THEN q0
                ELSE IF q.signals[signal].aborted THEN trySetCanceled(q0, t)
                ELSE [q0 EXCEPT !.signals[signal].listeners = Append(@, t)]
          IN [q1 EXCEPT !.promises = PromiseStackPush(@, t),
                        !.tcs[t].queued = TRUE]

\* lines 214-231
RECURSIVE optimizedEnqueue(_, _)
optimizedEnqueue(q, item) ==
  IF q.promises.count = 0
  THEN [q EXCEPT !.items = OptimizedQueueEnqueue(@, item)]
  ELSE LET promise == q.promises.items[q.promises.count]
           q0 == [q EXCEPT !.promises = PromiseStackTryPop(@)]
       IN IF trySetResultReturns(q0, promise)
          THEN trySetResult(q0, promise, item)
          ELSE optimizedEnqueue(q0, item)

\* -- both queues
\* the items in the queue of items, oldest first, and the waiting sources
ItemsOf(q) ==
  IF q.kind = "style" THEN q.items ELSE OptimizedQueueItems(q.items)

WaitersOf(q) ==
  IF q.kind = "style" THEN q.promises
  ELSE SubSeq(q.promises.items, 1, q.promises.count)

\* get size, get waitingConsumerCount
SharpSize(q) == IF q.kind = "style" THEN Len(q.items) ELSE q.items.count

SharpWaitingConsumerCount(q) ==
  IF q.kind = "style" THEN Len(q.promises) ELSE q.promises.count

SharpCalls == sharp.enqueued + Len(sharp.tcs)

SharpEnqueue ==
  /\ SharpCalls < MaxSharpCalls
  /\ sharp' = IF sharp.kind = "style"
              THEN enqueue([sharp EXCEPT !.enqueued = @ + 1],
                           sharp.enqueued + 1)
              ELSE optimizedEnqueue([sharp EXCEPT !.enqueued = @ + 1],
                                    sharp.enqueued + 1)
  /\ UNCHANGED <<mainvars, sides>>

SharpDequeue ==
  /\ SharpCalls < MaxSharpCalls
  /\ \E signal \in 0 .. NumSignals :
       sharp' = IF sharp.kind = "style"
                THEN dequeueAsyncWithCancel(sharp, signal)
                ELSE optimizedDequeueAsyncWithCancel(sharp, signal)
  /\ UNCHANGED <<mainvars, sides>>

SharpAbort ==
  /\ \E signal \in 1 .. NumSignals :
       /\ ~sharp.signals[signal].aborted
       /\ sharp' = abort(sharp, signal)
  /\ UNCHANGED <<mainvars, sides>>

SharpResume ==
  /\ sharp.jobs # <<>>
  /\ sharp' = SharpReturn(sharp)
  /\ UNCHANGED <<mainvars, sides>>

InitSharp ==
  /\ InitQueue(<<1>>)
  /\ sides = NoSides
  /\ sharp \in {SharpNew, OptimizedNew}

NextSharp ==
  \/ SharpEnqueue
  \/ SharpDequeue
  \/ SharpAbort
  \/ SharpResume

SpecSharp == InitSharp /\ [][NextSharp]_vars

\* ---- claims ---------------------------------------------------------------

\* C1: the number of buffered items is never negative and never exceeds the
\* requested capacity, whatever the interleaving of calls, resumptions and
\* close; a producer that resumes inserts only when the queue is not full.
C1_CapacityBound == 0 <= size /\ size <= capacity

\* a producer that had to wait has inserted and the queue is full again
C1_Witness ==
  /\ count = maxSize
  /\ \E c \in Calls("enq") : calls[c].atLimit /\ calls[c].res = "ok"
  /\ \E c \in Calls("enq") : calls[c].atLimit /\ calls[c].st = "suspended"
                             /\ calls[c].mark0 < Len(delivered)

\* C2: dequeue removes items in exactly the order in which they were written
\* into the buffer, also after head and tail have wrapped around.
C2_FifoByAcceptance ==
  /\ Len(delivered) <= Len(accepted)
  /\ DeliveredItems = SubSeq(AcceptedItems, 1, Len(delivered))

\* more items were delivered than the buffer has slots, the indices have
\* wrapped, and the delivered items are not all equal
C2_Witness ==
  /\ Len(delivered) > bufferLength
  /\ tail <= head
  /\ count > 0
  /\ \E i, j \in 1 .. Len(delivered) : DeliveredItems[i] # DeliveredItems[j]

\* C3: with one producer that enqueues x1..xn one after another and then
\* closes, the consumer has always received a prefix of x1..xn, and when it
\* is given end-of-stream it has received exactly x1..xn.
ProducedItems ==
  LET s == CallSeq("enq", Len(calls)) IN [i \in 1 .. Len(s) |-> calls[s[i]].item]

ReceivedItems ==
  LET s == SelectSeq(CallSeq("deq", Len(calls)),
                     LAMBDA c : calls[c].st = "done" /\ calls[c].res # Undefined)
  IN [i \in 1 .. Len(s) |-> calls[s[i]].res]

C3_SingleProducerFifo ==
  /\ IsPrefix(ReceivedItems, ProducedItems)
  /\ EndOfStream => ReceivedItems = ProducedItems

\* the consumer reached end-of-stream after the producer had to wait
C3_Witness ==
  /\ EndOfStream
  /\ Len(ProducedItems) >= 3
  /\ \E c \in Calls("enq") : calls[c].atLimit
  /\ \E c \in Calls("deq") : calls[c].atLimit /\ calls[c].res # Undefined
  /\ \E i, j \in 1 .. Len(ProducedItems) : ProducedItems[i] # ProducedItems[j]

\* C4: enqueue calls that succeed insert their items in the order in which
\* the calls were made (call numbers grow with call order), also when calls
\* had to wait for room.
C4_CallOrderFifo ==
  \A i, j \in 1 .. Len(accepted) : i < j => accepted[i] < accepted[j]

\* C5: an enqueue issued on a full, open queue inserts its item only after a
\* dequeue issued later than it has removed an item, and it completes only by
\* that insertion or, with the closed error, after close().
C5_Backpressure ==
  \A c \in Calls("enq") : calls[c].atLimit =>
    /\ c \in Range(accepted) =>
         calls[c].res = "ok" /\ calls[c].mark1 > calls[c].mark0
    /\ calls[c].st = "done" =>
         \/ calls[c].res = "ok" /\ c \in Range(accepted)
         \/ calls[c].res = "closed_error" /\ closed /\ c \notin Range(accepted)

\* capacity 1: enqueue(a) completed at once, enqueue(b) had to wait, the
\* first dequeue returned a and let enqueue(b) complete, the second returned b
C5_Witness ==
  /\ maxSize = 1 /\ ~closed /\ Len(calls) = 4
  /\ calls[1].op = "enq" /\ calls[1].item = "a" /\ ~calls[1].atLimit
  /\ calls[2].op = "enq" /\ calls[2].item = "b" /\ calls[2].atLimit
  /\ calls[3].op = "deq" /\ calls[3].res = "a"
  /\ calls[4].op = "deq" /\ calls[4].res = "b"
  /\ calls[2].res = "ok" /\ accepted = <<1, 2>> /\ delivered = <<3, 4>>

\* C6: a dequeue issued on an empty, open queue completes only after an item
\* was inserted later than the call, or after close(); it takes an item only
\* if one was inserted after the call, and otherwise returns end-of-stream on
\* a closed queue.
C6_DequeueWaits ==
  \A c \in Calls("deq") : calls[c].atLimit =>
    /\ c \in Range(delivered) => calls[c].mark1 > calls[c].mark0
    /\ calls[c].st = "done" =>
         \/ c \in Range(delivered) /\ calls[c].res \in Items
         \/ c \notin Range(delivered) /\ calls[c].res = Undefined /\ closed

\* on an open queue one waiting dequeue was given an item inserted after its
\* call while another one is still suspended
C6_Witness ==
  /\ ~closed
  /\ \E c \in Calls("deq") :
       calls[c].atLimit /\ calls[c].st = "done" /\ calls[c].res \in Items
  /\ \E c \in Calls("deq") : calls[c].atLimit /\ calls[c].st = "suspended"

\* C7: a step in which enqueue is called on a closed queue completes the call
\* with the closed error and changes neither the buffer, head, tail, count,
\* the waiter stacks and their counts, nor the microtask queue.
C7_Step ==
  (closed /\ Len(calls') = Len(calls) + 1 /\ calls'[Len(calls')].op = "enq") =>
    /\ calls'[Len(calls')].st = "done"
    /\ calls'[Len(calls')].res = "closed_error"
    /\ UNCHANGED <<qvars, jobs, accepted>>

C7_EnqueueAfterClose == [][C7_Step]_vars

\* enqueue calls issued after close() have failed on a partly filled buffer
\* and, after a dequeue, again with other contents
C7_Witness ==
  /\ 0 < count /\ count < maxSize
  /\ \E c, d \in Calls("enq") :
       /\ c < d
       /\ calls[c].closedAtCall /\ calls[c].res = "closed_error"
       /\ calls[d].closedAtCall /\ calls[d].res = "closed_error"
       /\ calls[c].mark0 < calls[d].mark0

\* C8: an enqueue that was pending (suspended, or woken and not yet resumed)
\* when close() was called never writes its item, and when it completes it
\* completes with the closed error.
C8_PendingAtCloseFails ==
  \A p \in closeSeen : calls[p[1]].op = "enq" =>
    /\ p[1] \notin Range(accepted)
    /\ calls[p[1]].st = "done" => calls[p[1]].res = "closed_error"

\* close() found one enqueue suspended and one woken by a dequeue; both have
\* failed although the buffer had room
C8_Witness ==
  /\ count < maxSize
  /\ \E p, q \in closeSeen :
       /\ p[2] = "suspended" /\ calls[p[1]].res = "closed_error"
       /\ q[2] = "woken" /\ calls[q[1]].res = "closed_error"

\* C9: every enqueue call is pending and has written nothing, or succeeded
\* and its item was written exactly once, or failed with the closed error
\* and its item was never written.
TimesAccepted(c) == Cardinality({i \in DOMAIN accepted : accepted[i] = c})

C9_AtomicEnqueue ==
  \A c \in Calls("enq") :
    \/ calls[c].st # "done" /\ calls[c].res = "pending" /\ TimesAccepted(c) = 0
    \/ calls[c].st = "done" /\ calls[c].res = "ok" /\ TimesAccepted(c) = 1
    \/ calls[c].st = "done" /\ calls[c].res = "closed_error" /\ TimesAccepted(c) = 0

\* close() raced two waiting producers: one had been woken and inserted
\* before the close, the other failed
C9_Witness ==
  /\ closed
  /\ \E c, d \in Calls("enq") :
       /\ calls[c].atLimit /\ calls[c].res = "ok"
       /\ calls[d].atLimit /\ calls[d].res = "closed_error"
       /\ <<d, "suspended">> \in closeSeen

\* C10: on a closed queue nothing is inserted any more; a dequeue call
\* completes in the step that issues it, with the oldest item not yet
\* removed if there is one and with end-of-stream otherwise; and an empty
\* closed queue stays empty and closed.
OldestBuffered ==
  IF Len(delivered) < Len(accepted)
  THEN calls[accepted[Len(delivered) + 1]].item
  ELSE Undefined

C10_Step ==
  closed =>
    /\ closed'
    /\ accepted' = accepted
    /\ count = 0 => count' = 0
    /\ (Len(calls') = Len(calls) + 1 /\ calls'[Len(calls')].op = "deq") =>
         /\ calls'[Len(calls')].st = "done"
         /\ calls'[Len(calls')].res = OldestBuffered
         /\ count > 0 => count' = count - 1

C10_CloseDrainsThenEnds == [][C10_Step]_vars

\* after close() two dequeue calls drained two different items and the two
\* calls after them returned end-of-stream
C10_Witness ==
  /\ closed
  /\ \E c1, c2, d1, d2 \in Calls("deq") :
       /\ c1 < c2 /\ c2 < d1 /\ d1 < d2
       /\ \A c \in {c1, c2, d1, d2} : calls[c].closedAtCall
       /\ calls[c1].res \in Items /\ calls[c2].res \in Items
       /\ calls[c1].res # calls[c2].res
       /\ calls[d1].res = Undefined /\ calls[d2].res = Undefined

\* C11: a consumer that was registered in the waiting-consumer stack when
\* close() was called has had its resolver invoked, never suspends again,
\* never takes an item, and completes with end-of-stream.
C11_WaitingConsumersEnd ==
  \A p \in closeSeen : (calls[p[1]].op = "deq" /\ p[2] = "suspended") =>
    /\ calls[p[1]].st \in {"woken", "done"}
    /\ p[1] \notin Range(delivered)
    /\ calls[p[1]].st = "done" => calls[p[1]].res = Undefined

\* capacity 1, empty queue: three dequeue calls, then close(); all three have
\* completed with end-of-stream and no item was ever delivered
C11_Witness ==
  /\ maxSize = 1 /\ Len(calls) = 3 /\ accepted = <<>> /\ delivered = <<>>
  /\ closeSeen = {<<1, "suspended">>, <<2, "suspended">>, <<3, "suspended">>}
  /\ \A c \in 1 .. 3 : calls[c].op = "deq" /\ calls[c].res = Undefined

\* C12: isClosed holds exactly when close() has been called and the buffer is
\* empty; after close() it becomes true only by the removal of the last
\* buffered item; once true it stays true.
C12_Step ==
  /\ isClosed => isClosed'
  /\ (closeCalls > 0 /\ ~isClosed /\ isClosed') =>
       count = 1 /\ Len(delivered') = Len(delivered) + 1

C12_IsClosed ==
  /\ [](isClosed <=> (closeCalls > 0 /\ size = 0))
  /\ [][C12_Step]_vars

\* close() found two buffered items; isClosed was false until the second
\* dequeue after it and is true now
C12_Witness ==
  /\ isClosed
  /\ \E c, d \in Calls("deq") :
       /\ c < d
       /\ calls[c].closedAtCall /\ calls[c].res \in Items
       /\ calls[d].closedAtCall /\ calls[d].res \in Items
       /\ calls[d].mark1 >= 2

\* C13: the closed flag never goes back to false, and a call of close() on a
\* queue that is already closed changes no field of the queue and invokes no
\* resolver.
C13_Step ==
  /\ closed => closed'
  /\ (closed /\ closeCalls' = closeCalls + 1) =>
       UNCHANGED <<qvars, jobs, calls, accepted, delivered>>

C13_CloseIdempotent == [][C13_Step]_vars

\* a second close() on a queue with a buffered item and with continuations
\* of the first close() still awaiting resumption
C13_Witness ==
  /\ closeCalls = 2 /\ count > 0 /\ jobs # <<>>
  /\ \E p \in closeSeen : p[2] = "suspended" /\ calls[p[1]].st = "woken"

\* C14: when N dequeue calls wait on an empty open queue and N enqueue calls
\* are then issued, eventually every call has completed, the N consumers
\* have taken the N items, one each, and nobody is registered as waiting.
AllIssuedNW ==
  NumCalls("deq") > 0 /\ NumCalls("enq") = NumCalls("deq")

AllResolvedNW ==
  /\ AllIssuedNW /\ AllDone
  /\ waitingConsumersCount = 0 /\ waitingProducersCount = 0
  /\ Range(accepted) = Calls("enq") /\ Len(accepted) = NumCalls("enq")
  /\ Range(delivered) = Calls("deq") /\ Len(delivered) = NumCalls("deq")
  /\ \A k \in 1 .. Len(delivered) :
       calls[delivered[k]].res = calls[accepted[k]].item

C14_NoLostWakeups == AllIssuedNW ~> AllResolvedNW

\* capacity 1 and three waiting consumers: the producers had to wait in turn
C14_Witness ==
  /\ AllResolvedNW /\ maxSize = 1 /\ NumCalls("deq") = 3
  /\ Cardinality({c \in Calls("enq") : calls[c].waited}) = 2
  /\ \A c \in Calls("deq") : calls[c].waited

\* C15: without close(), whenever as many enqueue as dequeue calls have been
\* issued and no continuation awaits resumption, every call has completed;
\* and once all calls of the run are issued, eventually all have completed.
C15_NoDeadlockBalanced ==
  /\ []((jobs = <<>> /\ NumCalls("enq") = NumCalls("deq")) => AllDone)
  /\ (NumCalls("enq") = MaxBal /\ NumCalls("deq") = MaxBal) ~> AllDone

\* capacity 1: producers and consumers both had to wait, one producer was
\* overtaken after its wake-up and suspended again, and all calls completed
C15_Witness ==
  /\ AllDone /\ maxSize = 1
  /\ NumCalls("enq") = MaxBal /\ NumCalls("deq") = MaxBal
  /\ \E c \in Calls("enq") : calls[c].waited
  /\ \E c \in Calls("deq") : calls[c].waited
  /\ \E i, j \in 1 .. Len(accepted) : i < j /\ accepted[i] > accepted[j]

\* C16: the k-th removal returns the item of the k-th insertion; the calls
\* that inserted are exactly the enqueues that succeeded, the calls that
\* removed are exactly the dequeues that returned an item, each once; the
\* items not yet removed are in the buffer, in order from head; and after
\* close() every consumer loop eventually ends with all accepted items
\* delivered.
AllConsumersEnded == EndedConsumers = NumConsumers

ExactlyOnce ==
  /\ Len(delivered) <= Len(accepted)
  /\ Cardinality(Range(accepted)) = Len(accepted)
  /\ Cardinality(Range(delivered)) = Len(delivered)
  /\ Range(accepted) = {c \in Calls("enq") : calls[c].res = "ok"}
  /\ Range(delivered) = {c \in Calls("deq") : calls[c].res \in Items}
  /\ \A k \in 1 .. Len(delivered) :
       calls[delivered[k]].res = calls[accepted[k]].item
  /\ count = Len(accepted) - Len(delivered)
  /\ \A k \in 1 .. count :
       buffer[(head + k - 1) % bufferLength]
         = calls[accepted[Len(delivered) + k]].item
  /\ AllConsumersEnded => Len(delivered) = Len(accepted)

C16_ExactlyOnce ==
  /\ []ExactlyOnce
  /\ closed ~> (AllConsumersEnded /\ Len(delivered) = Len(accepted))

\* two producers had calls in progress at the same time, both consumers took
\* items, and both ended after close()
C16_Witness ==
  /\ AllConsumersEnded /\ Len(delivered) = MaxItemsMC
  /\ \E c, d \in Calls("enq") :
       c < d /\ calls[c].waited /\ calls[d].waited
       /\ calls[c].mark1 > calls[d].mark0
  /\ \E c, d \in Calls("deq") :
       /\ c < d /\ calls[c].waited /\ calls[c].res \in Items
       /\ calls[d].res \in Items /\ calls[d].mark0 < calls[c].mark1

\* C17 as stated: a consumer is registered only while the buffer is empty
\* and the queue open, a producer only while the buffer is full and the
\* queue open.
C17_WaiterExistenceStrict ==
  /\ waitingConsumerCount > 0 => size = 0 /\ ~closed
  /\ waitingProducerCount > 0 => size = capacity /\ ~closed

\* C17 amended: waiters are registered only on an open queue; while a
\* consumer is registered the buffered items are at most the consumers woken
\* and not yet resumed, and while a producer is registered the free slots
\* are at most the producers woken and not yet resumed.
WokenCount(op) ==
  Cardinality({c \in Calls(op) : calls[c].st = "woken"})

C17_WaiterExistence ==
  /\ waitingConsumerCount > 0 =>
       ~closed /\ size <= WokenCount("deq")
  /\ waitingProducerCount > 0 =>
       ~closed /\ capacity - size <= WokenCount("enq")

\* a consumer is registered while an item is buffered for a woken consumer
C17_Witness ==
  /\ waitingConsumerCount > 0 /\ size > 0
  /\ WokenCount("deq") = size

Requested == IF ctor.args = <<>> THEN 1 ELSE ctor.args[1]

C19_Construction ==
  /\ Requested < 1 =>
       ctor.error = "maxSize must be at least 1" /\ calls = <<>>
  /\ Requested >= 1 => Constructed /\ capacity = Requested
  /\ (Constructed /\ calls = <<>> /\ closeCalls = 0) =>
       /\ size = 0 /\ ~isClosed
       /\ waitingConsumerCount = 0 /\ waitingProducerCount = 0

\* C20: with one producer and one consumer on a queue of requested capacity
\* n, an enqueue has waited exactly when n items were in the queue at its
\* call (so the first n enqueues on an empty queue do not wait and the next
\* one does), a producer is suspended only at size n, size never exceeds n,
\* isFull is size = n, and at end-of-stream every accepted item has been
\* delivered.
EarlierEnqueues(c) == Cardinality({d \in Calls("enq") : d < c})

C20_BlocksAtRequested ==
  /\ \A c \in Calls("enq") :
       calls[c].waited <=> (EarlierEnqueues(c) - calls[c].mark0 >= maxSize)
  /\ \A c \in Pending("enq") : calls[c].st = "suspended" => size = maxSize
  /\ size <= maxSize
  /\ isFull <=> (size = maxSize)
  /\ EndOfStream => Len(delivered) = Len(accepted)

\* capacity 3 in a buffer of 4 slots: three enqueues did not wait, the fourth
\* waited, one dequeue released it, and after close() the consumer drained
\* exactly three items before end-of-stream
C20_Witness ==
  /\ maxSize = 3 /\ bufferLength = 4 /\ EndOfStream
  /\ NumCalls("enq") = 4 /\ Len(accepted) = 4
  /\ \A c \in Calls("enq") : calls[c].waited <=> (EarlierEnqueues(c) = 3)
  /\ Cardinality({c \in Calls("deq") : ~calls[c].closedAtCall}) = 1
  /\ Cardinality({c \in Calls("deq") :
                    calls[c].closedAtCall /\ calls[c].res \in Items}) = 3

\* C21: a dequeue call completes with undefined only in a step after which
\* the queue is closed (close() was called) and its size is 0, whatever the
\* values that were enqueued.
Returned(c) ==
  /\ c \in DOMAIN calls'
  /\ calls'[c].st = "done"
  /\ c \in DOMAIN calls => calls[c].st # "done"

C21_Step ==
  \A c \in DOMAIN calls' :
    (Returned(c) /\ calls'[c].op = "deq" /\ calls'[c].res = Undefined)
      => (closed' /\ closeCalls' > 0 /\ count' = 0)

C21_UndefinedOnlyAtEnd == [][C21_Step]_vars

\* C22: a drain() that has completed did so on a closed, empty queue (so
\* never on a queue that is not closed); as the only consumer it returns the
\* accepted items in the order of acceptance; called on a closed empty queue
\* it returns the empty sequence.
LoopsOf(kind) == {h \in DOMAIN loops : loops[h].kind = kind}

DoneLoops(kind) == {h \in LoopsOf(kind) : loops[h].st = "done"}

C22_Drain ==
  \A h \in DoneLoops("drain") :
    /\ closeCalls > 0 /\ closed /\ count = 0
    /\ Len(loops) = 1 => loops[h].items = AcceptedItems
    /\ loops[h].atEnd => loops[h].items = <<>>

\* C22 for items other than undefined
NoUndefinedItem == \A c \in EnqueueCalls : calls[c].item # Undefined

C22_DrainOfDefinedItems == NoUndefinedItem => C22_Drain

\* C23: a take(n) holds at most n items; when it has completed its items are
\* the values its dequeue calls removed from the buffer, in that order, and
\* nothing else was removed by it; it has completed with fewer than n items
\* only on a closed, empty queue; take(0) completes at its call with no
\* item and the call changes nothing of the queue.
RemovedBy(h) ==
  LET mine == loops[h].mine
      taken == SelectSeq(mine, LAMBDA c : c \in Range(delivered))
  IN [k \in 1 .. Len(taken) |-> calls[taken[k]].res]

TakeState ==
  /\ \A h \in LoopsOf("take") : Len(loops[h].items) <= loops[h].n
  /\ \A h \in DoneLoops("take") :
       /\ loops[h].items = RemovedBy(h)
       /\ Len(loops[h].items) < loops[h].n => closed /\ count = 0
       /\ loops[h].n = 0 => loops[h].items = <<>> /\ loops[h].mine = <<>>

TakeZeroStep ==
  (/\ Len(loops') = Len(loops) + 1
   /\ loops'[Len(loops')].kind = "take"
   /\ loops'[Len(loops')].n = 0)
    => (loops'[Len(loops')].st = "done"
        /\ UNCHANGED <<qvars, calls, jobs, accepted, delivered>>)

C23_Take == []TakeState /\ [][TakeZeroStep]_vars

\* C23 for items other than undefined
C23_TakeOfDefinedItems ==
  [](NoUndefinedItem => TakeState) /\ [][TakeZeroStep]_vars

\* C24: the items an iteration has yielded are the values its dequeue calls
\* removed from the buffer, in that order, all of them once it has
\* completed; it has completed only on a closed, empty queue; an iteration
\* whose first dequeue was waiting when close() was called completes having
\* yielded nothing; an iteration started on a closed, empty queue makes one
\* dequeue call, which returns at once, and yields nothing.
IterState ==
  /\ \A h \in LoopsOf("iter") : IsPrefix(loops[h].items, RemovedBy(h))
  /\ \A h \in DoneLoops("iter") :
       /\ loops[h].items = RemovedBy(h)
       /\ closed /\ count = 0
       /\ (\E p \in closeSeen :
             p[1] = loops[h].mine[1] /\ p[2] = "suspended")
            => loops[h].items = <<>> /\ Len(loops[h].mine) = 1
  /\ \A h \in LoopsOf("iter") :
       loops[h].atEnd =>
         /\ loops[h].items = <<>> /\ Len(loops[h].mine) = 1
         /\ calls[loops[h].mine[1]].st = "done"
         /\ calls[loops[h].mine[1]].res = Undefined
         /\ ~calls[loops[h].mine[1]].waited

C24_Iteration == IterState

\* C24 for items other than undefined
C24_IterationOfDefinedItems == NoUndefinedItem => IterState

\* C25: a step that inserts an item adds one to count, writes only the buffer
\* slot at tail, leaves head, the closed flag and the waiting producers as
\* they were, and, when consumers are registered, clears the top entry of
\* their stack and resumes that consumer and no other call; when none is
\* registered it resumes nobody.  A step that removes an item does the same
\* with head, tail and the two stacks exchanged.
NewlyWoken ==
  {c \in DOMAIN calls : calls[c].st = "suspended" /\ calls'[c].st = "woken"}

WakesTop(queue, cnt, queueAfter, cntAfter) ==
  IF cnt > 0
  THEN /\ cntAfter = cnt - 1
       /\ queueAfter = [queue EXCEPT ![cnt] = NoResolver]
       /\ NewlyWoken = {queue[cnt]}
       /\ jobs' # <<>> /\ jobs'[Len(jobs')] = queue[cnt]
  ELSE /\ cntAfter = 0
       /\ queueAfter = queue
       /\ NewlyWoken = {}

C25_InsertStep ==
  Len(accepted') = Len(accepted) + 1 =>
    /\ count' = count + 1
    /\ \A i \in DOMAIN buffer : i # tail => buffer'[i] = buffer[i]
    /\ UNCHANGED <<maxSize, head, closed, waitingProducers,
                   waitingProducersCount>>
    /\ WakesTop(waitingConsumers, waitingConsumersCount,
                waitingConsumers', waitingConsumersCount')

C25_RemoveStep ==
  Len(delivered') = Len(delivered) + 1 =>
    /\ count' = count - 1
    /\ \A i \in DOMAIN buffer : i # head => buffer'[i] = buffer[i]
    /\ UNCHANGED <<maxSize, tail, closed, waitingConsumers,
                   waitingConsumersCount>>
    /\ WakesTop(waitingProducers, waitingProducersCount,
                waitingProducers', waitingProducersCount')

C25_WakeExactlyOne == [][C25_InsertStep /\ C25_RemoveStep]_vars

\* capacity 1 with two producers registered: a dequeue has removed the item
\* and resumed one of them, the other is still registered
C25_Witness ==
  /\ maxSize = 1 /\ count = 0 /\ Len(delivered) = 1 /\ Len(accepted) = 1
  /\ waitingProducersCount = 1
  /\ Cardinality({c \in Pending("enq") : calls[c].st = "woken"}) = 1
  /\ Cardinality({c \in Pending("enq") : calls[c].st = "suspended"}) = 1

\* C26: a call whose resolver was invoked (by an enqueue or a dequeue; after
\* close() no call suspends anyway) does not suspend again when it resumes:
\* the consumer takes an item, the producer inserts.
C26_Step ==
  \A c \in DOMAIN calls :
    calls[c].st = "woken" => calls'[c].st # "suspended"

C26_ResumedProceeds == [][C26_Step]_vars

\* C27: when an enqueue that succeeds finds a consumer registered, the step
\* leaves size as it was and the consumer at the top of the stack is handed
\* the item of that enqueue.
C27_Step ==
  (Len(accepted') = Len(accepted) + 1 /\ waitingConsumersCount > 0) =>
    LET consumer == waitingConsumers[waitingConsumersCount]
        producer == accepted'[Len(accepted')]
    IN /\ size' = size
       /\ calls'[consumer].res = calls'[producer].item

C27_DirectHandoff == [][C27_Step]_vars

\* C28: while a consumer is registered, the buffered items are at most the
\* consumers whose resolver was invoked and that have not resumed yet; while
\* a producer is registered, the free slots are at most the producers in
\* that position.  So when no continuation awaits resumption, no consumer
\* is registered beside a buffered item, no producer beside a free slot,
\* and the two stacks are not both non-empty.
Quiescent == jobs = <<>>

C28_NoStrandedWaiter ==
  /\ waitingConsumersCount > 0 => count <= WokenCount("deq")
  /\ waitingProducersCount > 0 => maxSize - count <= WokenCount("enq")
  /\ Quiescent =>
       /\ WokenCount("deq") = 0 /\ WokenCount("enq") = 0
       /\ waitingConsumersCount > 0 => count = 0
       /\ waitingProducersCount > 0 => count = maxSize
       /\ ~(waitingConsumersCount > 0 /\ waitingProducersCount > 0)

\* a consumer and a producer are registered at the same time: the buffer is
\* full of items that woken consumers have not taken yet
C28_Witness ==
  /\ waitingConsumersCount > 0 /\ waitingProducersCount > 0
  /\ count = maxSize /\ WokenCount("deq") >= count

\* C29: a resolver is invoked at most once: the microtask queue holds each
\* call at most once, exactly the calls whose resolver was invoked and that
\* have not resumed; the resolvers registered in a stack belong to distinct
\* suspended calls of its kind, none of them scheduled; the entries above
\* the count of a stack are empty, so a popped waiter is not seen again;
\* and after close() both stacks are empty.
Registered(queue, cnt) == {queue[i] : i \in 1 .. cnt}

Emptied(queue, cnt) == \A i \in cnt + 1 .. Len(queue) : queue[i] = NoResolver

OncePerWaiter(queue, cnt, op) ==
  /\ Cardinality(Registered(queue, cnt)) = cnt
  /\ \A r \in Registered(queue, cnt) :
       /\ r \in DOMAIN calls
       /\ calls[r].op = op /\ calls[r].st = "suspended"
       /\ r \notin Range(jobs)
  /\ Emptied(queue, cnt)

C29_NoDoubleResume ==
  /\ Cardinality(Range(jobs)) = Len(jobs)
  /\ Range(jobs) = {c \in DOMAIN calls : calls[c].st = "woken"}
  /\ OncePerWaiter(waitingConsumers, waitingConsumersCount, "deq")
  /\ OncePerWaiter(waitingProducers, waitingProducersCount, "enq")
  /\ \A c \in DOMAIN calls :
       calls[c].st = "suspended" =>
         c \in Registered(waitingConsumers, waitingConsumersCount)
                \cup Registered(waitingProducers, waitingProducersCount)
  /\ closeCalls > 0 =>
       /\ waitingConsumersCount = 0 /\ waitingProducersCount = 0
       /\ Emptied(waitingConsumers, 0) /\ Emptied(waitingProducers, 0)

\* one consumer was popped by the wake of an enqueue and took the item, the
\* other was swept by the first close(); after a second close() every call
\* has completed and nothing is scheduled
C29_Witness ==
  /\ closeCalls = 2 /\ jobs = <<>> /\ AllDone
  /\ \E c \in Calls("deq") : calls[c].waited /\ c \in Range(delivered)
  /\ \E p \in closeSeen : calls[p[1]].op = "deq" /\ p[2] = "suspended"

\* C30: once close() has been called both waiter counts are 0 and no call is
\* suspended, in every later state: a call that was pending at close() has
\* had its resolver invoked or has completed, and a call issued after
\* close() completes in its own step without waiting.
C30_NothingSuspendsAfterClose ==
  closeCalls > 0 =>
    /\ waitingProducerCount = 0 /\ waitingConsumerCount = 0
    /\ \A c \in DOMAIN calls :
         /\ calls[c].st # "suspended"
         /\ calls[c].closedAtCall => calls[c].st = "done" /\ ~calls[c].waited
    /\ \A p \in closeSeen : calls[p[1]].st \in {"woken", "done"}

\* a producer was waiting on a full queue at close(); it has failed, and an
\* enqueue and two dequeues issued after close() completed at once, the
\* second dequeue with end-of-stream
C30_Witness ==
  /\ closeCalls > 0 /\ AllDone /\ count = 0
  /\ \E p \in closeSeen :
       /\ calls[p[1]].op = "enq" /\ p[2] = "suspended"
       /\ calls[p[1]].res = "closed_error"
  /\ \E c \in Calls("enq") : calls[c].closedAtCall
  /\ \E c, d \in Calls("deq") :
       /\ calls[c].closedAtCall /\ calls[c].res \in Items
       /\ calls[d].closedAtCall /\ calls[d].res = Undefined

\* C31: the call resumed by a step that inserts (removes) an item is the
\* registered consumer (producer) whose registration is the latest; a waiter
\* leaves its collection only in a step of close() or when no waiter of the
\* collection registered after it, and then it is the only one to leave.
Latest(S) == {c \in S : \A d \in S : calls[d].reg <= calls[c].reg}

Leaving(queue, cnt, queueAfter, cntAfter) ==
  Registered(queue, cnt) \ Registered(queueAfter, cntAfter)

StaysUnlessLatest(queue, cnt, queueAfter, cntAfter) ==
  \/ closeCalls' = closeCalls + 1
  \/ Leaving(queue, cnt, queueAfter, cntAfter) = {}
  \/ /\ Leaving(queue, cnt, queueAfter, cntAfter) = Latest(Registered(queue, cnt))
     /\ Cardinality(Latest(Registered(queue, cnt))) = 1

C31_Step ==
  /\ (Len(accepted') = Len(accepted) + 1 /\ waitingConsumersCount > 0) =>
       NewlyWoken = Latest(Registered(waitingConsumers, waitingConsumersCount))
  /\ (Len(delivered') = Len(delivered) + 1 /\ waitingProducersCount > 0) =>
       NewlyWoken = Latest(Registered(waitingProducers, waitingProducersCount))
  /\ StaysUnlessLatest(waitingConsumers, waitingConsumersCount,
                       waitingConsumers', waitingConsumersCount')
  /\ StaysUnlessLatest(waitingProducers, waitingProducersCount,
                       waitingProducers', waitingProducersCount')

C31_LifoWake == [][C31_Step]_vars

\* on an open queue a consumer that registered after another has been
\* resumed and has taken an item while the earlier one is still registered,
\* and the same happened to two producers
C31_Witness ==
  /\ ~closed
  /\ \E c, d \in Calls("deq") :
       /\ 0 < calls[c].reg /\ calls[c].reg < calls[d].reg
       /\ c \in Registered(waitingConsumers, waitingConsumersCount)
       /\ d \in Range(delivered)
  /\ \E c, d \in Calls("enq") :
       /\ 0 < calls[c].reg /\ calls[c].reg < calls[d].reg
       /\ c \in Registered(waitingProducers, waitingProducersCount)
       /\ d \in Range(accepted)

\* C32: a step of close() leaves size, head, tail, every buffer slot and the
\* capacity as they were, inserts and removes nothing and completes no call;
\* of the queue's fields it changes only the closed flag, the two waiter
\* arrays and their counts.
C32_Step ==
  closeCalls' = closeCalls + 1 =>
    /\ UNCHANGED <<maxSize, buffer, head, tail, count, accepted, delivered>>
    /\ size' = size
    /\ closed'
    /\ DOMAIN calls' = DOMAIN calls
    /\ \A c \in DOMAIN calls : calls'[c].res = calls[c].res

C32_CloseKeepsItems == [][C32_Step]_vars

\* close() was called on a full buffer whose head had advanced, with a
\* producer waiting; the producer has not resumed yet and the items that were
\* accepted and not removed are still in the buffer, from head on
C32_Witness ==
  /\ closeCalls > 0 /\ count = maxSize /\ count >= 2 /\ head > 0
  /\ \E p \in closeSeen :
       calls[p[1]].op = "enq" /\ p[2] = "suspended" /\ calls[p[1]].st = "woken"
  /\ \A k \in 1 .. count :
       buffer[(head + k - 1) % bufferLength]
         = calls[accepted[Len(delivered) + k]].item

\* C33: head and tail are indices of the buffer and tail is
\* (head + count) mod the buffer length; the count slots from head on, with
\* wrap-around, hold the accepted items not yet removed, in the order of
\* acceptance; every other slot is empty.  A step that removes an item
\* empties its slot, and a step that inserts writes a slot that was empty
\* and not one of the live slots.
LiveSlots == {(head + k) % bufferLength : k \in 0 .. count - 1}

CircularBuffer ==
  /\ DOMAIN buffer = 0 .. bufferLength - 1
  /\ head \in DOMAIN buffer /\ tail \in DOMAIN buffer
  /\ 0 <= count /\ count <= bufferLength
  /\ tail = (head + count) % bufferLength
  /\ count = Len(accepted) - Len(delivered)
  /\ \A k \in 1 .. count :
       buffer[(head + k - 1) % bufferLength]
         = calls[accepted[Len(delivered) + k]].item
  /\ \A i \in DOMAIN buffer \ LiveSlots : buffer[i] = Undefined

C33_Step ==
  /\ Len(delivered') = Len(delivered) + 1 =>
       buffer'[head] = Undefined /\ head \notin LiveSlots'
  /\ Len(accepted') = Len(accepted) + 1 =>
       /\ buffer[tail] = Undefined /\ tail \notin LiveSlots
       /\ \A i \in LiveSlots : buffer'[i] = buffer[i]

C33_CircularBuffer == []CircularBuffer /\ [][C33_Step]_vars

\* capacity 3 in a buffer of 4 slots: two items were removed and their slots
\* emptied, the fourth insertion made tail wrap to 0, and the two live items
\* are different
C33_Witness ==
  /\ maxSize = 3 /\ bufferLength = 4
  /\ head = 2 /\ tail = 0 /\ count = 2 /\ Len(delivered) = 2
  /\ buffer[0] = Undefined /\ buffer[1] = Undefined
  /\ buffer[2] \in Items /\ buffer[3] \in Items /\ buffer[2] # buffer[3]

\* C35: for every integer capacity n >= 1 the buffer length the constructor
\* computes, 1 << (32 - clz32(n - 1)), is a power of two, is at least n and
\* is the smallest such (its half is below n), the buffer of the queue has
\* that many slots, and masking an index of the buffer with length - 1
\* gives the index back while masking the length itself gives 0.
IsPowerOfTwo(m) == \E k \in 0 .. 30 : m = 2 ^ k

RoundedUp(n) ==
  LET len == bufferSize(n)
  IN /\ IsPowerOfTwo(len)
     /\ len >= n
     /\ len = 1 \/ len \div 2 < n

C35_CapacityRounding ==
  Requested >= 1 =>
    /\ RoundedUp(Requested)
    /\ Constructed
    /\ DOMAIN buffer = 0 .. bufferLength - 1
    /\ \A i \in DOMAIN buffer : BitAnd(i, bufferLength - 1) = i
    /\ BitAnd(bufferLength, bufferLength - 1) = 0

\* C35 for the capacities up to 2^30: the powers of two, their neighbours,
\* and the capacities of the queues of the runs
C35_RoundingUpTo2p30 ==
  /\ \A k \in 0 .. 30 :
       \A n \in {2 ^ k - 1, 2 ^ k, 2 ^ k + 1} :
         (1 <= n /\ n <= 2 ^ 30) => RoundedUp(n)
  /\ (1 <= Requested /\ Requested <= 2 ^ 30) =>
       /\ RoundedUp(Requested)
       /\ Constructed
       /\ DOMAIN buffer = 0 .. bufferLength - 1
       /\ \A i \in DOMAIN buffer : BitAnd(i, bufferLength - 1) = i
       /\ BitAnd(bufferLength, bufferLength - 1) = 0

\* C36: waitingProducerCount is the number of enqueue calls that are
\* suspended and whose resolver was not invoked, waitingConsumerCount the
\* number of such dequeue calls; a step in which a call suspends adds one to
\* the count of its kind, a step of enqueue or dequeue that invokes a
\* resolver subtracts one, and a step of close() leaves both at 0.
SuspendedCalls(op) == {c \in Calls(op) : calls[c].st = "suspended"}

NewlySuspended(op) ==
  {c \in DOMAIN calls' :
     /\ calls'[c].op = op /\ calls'[c].st = "suspended"
     /\ c \in DOMAIN calls => calls[c].st # "suspended"}

WaitingCounted(op, cnt, cntAfter) ==
  IF closeCalls' = closeCalls + 1
  THEN cntAfter = 0 /\ NewlySuspended(op) = {}
  ELSE /\ Cardinality(NewlySuspended(op)) <= 1
       /\ Cardinality({c \in NewlyWoken : calls[c].op = op}) <= 1
       /\ cntAfter = cnt + Cardinality(NewlySuspended(op))
                        - Cardinality({c \in NewlyWoken : calls[c].op = op})

C36_Step ==
  /\ WaitingCounted("enq", waitingProducerCount, waitingProducerCount')
  /\ WaitingCounted("deq", waitingConsumerCount, waitingConsumerCount')

C36_WaitingCounts ==
  /\ [](/\ waitingProducerCount = Cardinality(SuspendedCalls("enq"))
        /\ waitingConsumerCount = Cardinality(SuspendedCalls("deq")))
  /\ [][C36_Step]_vars

\* capacity 1: three enqueues were blocked, a dequeue has resumed one of
\* them, which has not run yet, and waitingProducerCount is 2
C36_Witness ==
  /\ maxSize = 1 /\ waitingProducerCount = 2
  /\ Cardinality(Pending("enq")) = 3 /\ WokenCount("enq") = 1
  /\ Len(delivered) = 1

\* C40: each waiter array has length 16 on a new queue; its length changes
\* only in a step that pushes a waiter while the number of waiters equals the
\* length, and then it doubles; it never decreases, not when a waiter is
\* popped and not in close(); the number of waiters is at most the length,
\* the entries below that number are continuations of calls and the entries
\* from that number on are empty.
WaiterArray(queue, cnt) ==
  /\ \E k \in 0 .. 4 : Len(queue) = INITIAL_WAITING_CAPACITY * 2 ^ k
  /\ 0 <= cnt /\ cnt <= Len(queue)
  /\ \A i \in 1 .. cnt : queue[i] # NoResolver /\ queue[i] \in DOMAIN calls
  /\ \A i \in cnt + 1 .. Len(queue) : queue[i] = NoResolver

GrowsOnOverflow(queue, cnt, queueAfter, cntAfter) ==
  /\ Len(queueAfter) >= Len(queue)
  /\ Len(queueAfter) # Len(queue) <=> (cntAfter = cnt + 1 /\ cnt = Len(queue))
  /\ Len(queueAfter) # Len(queue) => Len(queueAfter) = 2 * Len(queue)

WaiterStorage ==
  /\ WaiterArray(waitingConsumers, waitingConsumersCount)
  /\ WaiterArray(waitingProducers, waitingProducersCount)
  /\ (calls = <<>> /\ closeCalls = 0) =>
       /\ Len(waitingConsumers) = 16
       /\ Len(waitingProducers) = 16

C40_Step ==
  /\ GrowsOnOverflow(waitingConsumers, waitingConsumersCount,
                     waitingConsumers', waitingConsumersCount')
  /\ GrowsOnOverflow(waitingProducers, waitingProducersCount,
                     waitingProducers', waitingProducersCount')

C40_WaiterStorage == []WaiterStorage /\ [][C40_Step]_vars

\* the seventeenth waiting dequeue made the consumer array grow to 32
\* entries; an enqueue has popped a consumer, which took the item, close()
\* has swept the others, and the array still has 32 entries, all empty
C40_Witness ==
  /\ Len(waitingConsumers) = 32 /\ Len(waitingProducers) = 16
  /\ closeCalls > 0 /\ waitingConsumersCount = 0
  /\ \E c \in Calls("deq") : calls[c].waited /\ c \in Range(delivered)
  /\ Cardinality({p \in closeSeen : p[2] = "suspended"}) >= 16

\* C34: when the same enqueue, dequeue and close calls are made on the
\* array-based queue and on the circular-buffer queue and their
\* continuations run in the same order, the array of the one holds the count
\* slots of the other read from head, every call has the same state and the
\* same result on both, size, capacity, isClosed, isFull, isEmpty and the
\* waiting counts agree, and the same calls wait and await resumption.
C34_Equivalent ==
  /\ sides.orig.queue = CircItems(sides.circ)
  /\ OrigObserved(sides.orig) = CircObserved(sides.circ)
  /\ sides.orig.waitingConsumers = sides.circ.waitingConsumers
  /\ sides.orig.waitingProducers = sides.circ.waitingProducers
  /\ sides.orig.jobs = sides.circ.jobs
  /\ sides.orig.closed = sides.circ.closed

\* capacity 2: a third enqueue waited, a dequeue let it in, and the two live
\* items, different ones, lie across the end of the circular buffer
C34_Witness ==
  /\ sides.circ.maxSize = 2 /\ sides.circ.count = 2
  /\ sides.circ.head = 1 /\ sides.circ.tail = 1
  /\ Len(sides.orig.queue) = 2 /\ sides.orig.queue[1] # sides.orig.queue[2]
  /\ \E c \in DOMAIN sides.orig.calls :
       /\ sides.orig.calls[c].op = "enq" /\ sides.orig.calls[c].waited
       /\ sides.orig.calls[c].res = "ok"

\* C37: the promise of a completion source is settled at most once, and it
\* is settled exactly when the source is completed; once a source is
\* completed no step changes its outcome, so a waiter cancelled by its signal
\* is never given an item and a waiter given an item is not rejected by a
\* later abort; a call returns or throws once, the outcome of its source.
SettledOnce(x) ==
  /\ Len(x.settled) <= 1
  /\ x.completed <=> x.settled # <<>>
  /\ x.returned # NotReturned => x.settled # <<>> /\ x.returned = x.settled[1]

CompletedStays(x, y) ==
  /\ x.completed => y.completed /\ y.settled = x.settled
  /\ x.returned # NotReturned => y.returned = x.returned

C37_Step ==
  \A t \in DOMAIN sharp.tcs : CompletedStays(sharp.tcs[t], sharp'.tcs[t])

C37_SettledOnce ==
  /\ [](\A t \in DOMAIN sharp.tcs : SettledOnce(sharp.tcs[t]))
  /\ [][C37_Step]_vars

\* a waiter was cancelled by its signal and a later enqueue met it in the
\* waiter queue: its call threw the cancellation; another waiter was given
\* the item, its signal was aborted afterwards, and its call returned the item
Popped(t) == sharp.tcs[t].queued /\ t \notin Range(WaitersOf(sharp))

C37_Witness ==
  \E t1, t2 \in DOMAIN sharp.tcs :
    /\ Popped(t1) /\ sharp.tcs[t1].returned = Canceled
    /\ Popped(t2) /\ sharp.tcs[t2].returned.kind = "result"
    /\ sharp.tcs[t2].signal # NoSignal
    /\ sharp.signals[sharp.tcs[t2].signal].aborted

\* C38: every item enqueued so far is either in the item queue, once, or
\* the outcome of exactly one completion source, never both and never
\* neither; a cancelled source holds no item; and size counts the items that
\* no call has received.
InItems(k) == {i \in DOMAIN ItemsOf(sharp) : ItemsOf(sharp)[i] = k}

ReceivedBy(k) ==
  {t \in DOMAIN sharp.tcs : Result(k) \in Range(sharp.tcs[t].settled)}

C38_NoItemLost ==
  /\ \A k \in 1 .. sharp.enqueued :
       Cardinality(InItems(k)) + Cardinality(ReceivedBy(k)) = 1
  /\ \A i \in DOMAIN ItemsOf(sharp) : ItemsOf(sharp)[i] \in 1 .. sharp.enqueued
  /\ \A t \in DOMAIN sharp.tcs :
       Canceled \in Range(sharp.tcs[t].settled) =>
         \A k \in 1 .. sharp.enqueued : t \notin ReceivedBy(k)
  /\ SharpSize(sharp)
       = Cardinality({k \in 1 .. sharp.enqueued : ReceivedBy(k) = {}})

\* an enqueue skipped a cancelled waiter and gave its item to the waiter
\* behind it; the next enqueue found no waiter and stored its item
C38_Witness ==
  /\ ItemsOf(sharp) # <<>>
  /\ \E t1, t2 \in DOMAIN sharp.tcs :
       /\ t1 < t2
       /\ Popped(t1) /\ sharp.tcs[t1].settled = <<Canceled>>
       /\ Popped(t2) /\ sharp.tcs[t2].settled # <<>>
       /\ sharp.tcs[t2].settled[1].kind = "result"

\* C39: the waiter collection holds no cancelled waiter: waitingConsumerCount
\* is the number of calls of dequeueAsyncWithCancel that are still pending.
PendingWaiters == {t \in DOMAIN sharp.tcs : ~sharp.tcs[t].completed}

C39_CancelRemovesWaiter ==
  /\ \A t \in Range(WaitersOf(sharp)) : ~sharp.tcs[t].completed
  /\ SharpWaitingConsumerCount(sharp) = Cardinality(PendingWaiters)

====
